---- MODULE Spec2Model ----
(***************************************************************************)
(* Proxy subsystem of the enemy IRC clone tool: the proxy pool (proxy.c),  *)
(* the concurrent validator (proxy_loader.c) and the framed timed I/O used *)
(* by the SOCKS4 / SOCKS5 / HTTP CONNECT handshakes (proxy.c).             *)
(***************************************************************************)
EXTENDS Integers, Sequences, FiniteSets, TLC

(* ---------------------------------------------------------------------- *)
(* Bounds of the model                                                     *)
(* ---------------------------------------------------------------------- *)
MaxPool == 2
MaxConc == 2

(* ---------------------------------------------------------------------- *)
(* Program constants                                                       *)
(* ---------------------------------------------------------------------- *)
NULL == 0
PROXY_VALIDATOR_DEFAULT_CONCURRENCY == 10
PROXY_VALIDATOR_MAX_CONCURRENCY == 128

PROXY_NONE == "NONE"
PROXY_HTTP == "HTTP"
PROXY_HTTPS == "HTTPS"
PROXY_SOCKS4 == "SOCKS4"
PROXY_SOCKS5 == "SOCKS5"
proxy_type == {PROXY_NONE, PROXY_HTTP, PROXY_HTTPS, PROXY_SOCKS4, PROXY_SOCKS5}

Ids == 1 .. MaxPool
Workers == 1 .. MaxPool

VARIABLES
    \* the pool: xconnect.proxy_list / proxy_tail / current_proxy / proxy_count
    \* and the proxy records (struct proxy_t), indexed by allocation
    px, proxy_list, proxy_tail, current_proxy, proxy_count,
    \* the file and the default type of the last load that found a proxy:
    \* xconnect.proxy_file and xconnect.proxy_default_type
    xconnect,
    \* check_and_validate_proxies: the controlling thread's position, the
    \* shared context (proxy_validator_ctx) and the worker threads
    mainpc, ctx, wk,
    \* observations: the last completed operation and its return value, and
    \* for the sweep in progress how often each snapshot index was claimed
    \* and how often each proxy's outcome fields were written
    lastOp, ret, claimed, wrote,
    \* one worker on one proxy, seen at the level of its sockets: which
    \* definition of the handshake functions is built in (the one on
    \* safe_read_with_timeout / safe_write_with_timeout, or the one on bare
    \* read / write), the worker's position on the proxy, the handshake
    \* function's position, the I/O call in progress, the proxy's end of
    \* the connection
    handshake_io, job, hs, io, peer,
    \* one call of socks4_connect, socks5_connect or http_connect with
    \* arguments of the caller's choice, on a connection that delivers what
    \* is asked for
    call,
    \* what the proxy server each record names does to the attempts made
    \* on it during a sweep taken lock by lock and message by message
    net,
    \* one line of a proxy file parsed, written back by
    \* save_validated_proxies and parsed again
    rt

poolVars ==
    <<px, proxy_list, proxy_tail, current_proxy, proxy_count, xconnect>>
sweepVars == <<mainpc, ctx, wk>>
obsVars == <<lastOp, ret, claimed, wrote>>
ioVars == <<handshake_io, job, hs, io, peer, call, net, rt>>

(* ---------------------------------------------------------------------- *)
(* struct proxy_t                                                          *)
(* ---------------------------------------------------------------------- *)
\* a record released by del_proxy (free): no field of it is meaningful
FreeRec ==
    [live |-> FALSE, type |-> PROXY_NONE, detected_type |-> PROXY_NONE,
     cred |-> FALSE, is_active |-> 0, has_auth |-> 0, validated |-> 0,
     last_rtt_ms |-> 0, next |-> NULL, parent |-> NULL]

\* the record parse_proxy_line returns: calloc zeroes every field, then the
\* type is set from the scheme or the default and the credentials are copied
ParsedRec(t, c) ==
    [live |-> TRUE, type |-> t, detected_type |-> PROXY_NONE,
     cred |-> c, is_active |-> 0, has_auth |-> 0, validated |-> 0,
     last_rtt_ms |-> 0, next |-> NULL, parent |-> NULL]

\* username && password && *username && *password
HasCred(r) == r.cred

(* ---------------------------------------------------------------------- *)
(* The pool as a heap value h = [px, list, tail, cur, count]               *)
(* ---------------------------------------------------------------------- *)
Heap == [px |-> px, list |-> proxy_list, tail |-> proxy_tail,
         cur |-> current_proxy, count |-> proxy_count]

EmptyHeap == [px |-> [i \in Ids |-> FreeRec], list |-> NULL, tail |-> NULL,
              cur |-> NULL, count |-> 0]

\* the entries reached from p by following next, at most n of them
RECURSIVE Walk(_, _, _)
Walk(pxs, p, n) ==
    IF p = NULL \/ n = 0 THEN <<>>
    ELSE <<p>> \o Walk(pxs, pxs[p].next, n - 1)

ListOf(h) == Walk(h.px, h.list, MaxPool)
PoolSeq == ListOf(Heap)

Range(s) == {s[i] : i \in 1 .. Len(s)}

\* del_proxy: frees the strings and the record
del_proxy(pxs, p) ==
    IF p = NULL THEN pxs ELSE [pxs EXCEPT ![p] = FreeRec]

\* del_proxy_all, the loop: every entry reached from p is freed
RECURSIVE del_loop(_, _, _)
del_loop(pxs, p, n) ==
    IF p = NULL \/ n = 0 THEN pxs
    ELSE del_loop(del_proxy(pxs, p), pxs[p].next, n - 1)

\* del_proxy_all leaving the cursor where it is
del_proxy_all_cursor(h) ==
    [px |-> del_loop(h.px, h.list, MaxPool), list |-> NULL, tail |-> NULL,
     cur |-> h.cur, count |-> 0]

\* del_proxy_all: the entries of the list are freed, the pool is reset
del_proxy_all(h) ==
    [px |-> del_loop(h.px, h.list, MaxPool), list |-> NULL, tail |-> NULL,
     cur |-> NULL, count |-> 0]

\* remove_proxy_from_list moving the cursor to the successor only
remove_proxy_from_list_nowrap(h, p) ==
    IF p = NULL THEN h
    ELSE
      LET nx == h.px[p].next
          pa == h.px[p].parent
          px1 == IF pa # NULL THEN [h.px EXCEPT ![pa].next = nx] ELSE h.px
          list1 == IF pa # NULL THEN h.list ELSE nx
          px2 == IF nx # NULL THEN [px1 EXCEPT ![nx].parent = pa] ELSE px1
          tail1 == IF nx # NULL THEN h.tail ELSE pa
          cur1 == IF h.cur = p THEN nx ELSE h.cur
      IN [px |-> del_proxy(px2, p), list |-> list1, tail |-> tail1,
          cur |-> cur1, count |-> h.count - 1]

\* remove_proxy_from_list leaving the cursor where it is
remove_proxy_from_list_stale(h, p) ==
    IF p = NULL THEN h
    ELSE
      LET nx == h.px[p].next
          pa == h.px[p].parent
          px1 == IF pa # NULL THEN [h.px EXCEPT ![pa].next = nx] ELSE h.px
          list1 == IF pa # NULL THEN h.list ELSE nx
          px2 == IF nx # NULL THEN [px1 EXCEPT ![nx].parent = pa] ELSE px1
          tail1 == IF nx # NULL THEN h.tail ELSE pa
      IN [px |-> del_proxy(px2, p), list |-> list1, tail |-> tail1,
          cur |-> h.cur, count |-> h.count - 1]

\* remove_proxy_from_list
remove_proxy_from_list(h, p) ==
    IF p = NULL THEN h
    ELSE
      LET nx == h.px[p].next
          pa == h.px[p].parent
          px1 == IF pa # NULL THEN [h.px EXCEPT ![pa].next = nx] ELSE h.px
          list1 == IF pa # NULL THEN h.list ELSE nx
          px2 == IF nx # NULL THEN [px1 EXCEPT ![nx].parent = pa] ELSE px1
          tail1 == IF nx # NULL THEN h.tail ELSE pa
          cur1 == IF h.cur = p
                  THEN (IF nx # NULL THEN nx ELSE list1)
                  ELSE h.cur
      IN [px |-> del_proxy(px2, p), list |-> list1, tail |-> tail1,
          cur |-> cur1, count |-> h.count - 1]

\* no file remembered: xconnect is zero-initialised ("" is the NULL of
\* proxy_file)
NoSource == [proxy_file |-> "", proxy_default_type |-> PROXY_NONE]

\* load_proxies after the loop: with count > 0 the file name and the
\* default type are remembered
remember(x, filename, default_type, count) ==
    IF count > 0
    THEN [proxy_file |-> filename, proxy_default_type |-> default_type]
    ELSE x

\* fopen fails after the pool was emptied and the file name stored
load_proxies_unopened_late(h, x, filename, default_type) ==
    [heap |-> del_proxy_all(h),
     xconnect |-> [proxy_file |-> filename,
                   proxy_default_type |-> default_type],
     ret |-> -1]

\* load_proxies when fopen fails: the message is printed and -1 returned
load_proxies_unopened(h, x, filename, default_type) ==
    [heap |-> h, xconnect |-> x, ret |-> -1]

\* load_proxies, the loop appending one parsed record to the tail
AppendProxy(h, p, rec) ==
    IF h.list = NULL
    THEN [h EXCEPT !.px[p] = rec, !.list = p, !.tail = p]
    ELSE [h EXCEPT !.px[p] = [rec EXCEPT !.parent = h.tail],
                   !.px[h.tail].next = p, !.tail = p]

RECURSIVE AppendAll(_, _, _)
AppendAll(h, recs, k) ==
    IF k > Len(recs) THEN h
    ELSE AppendAll(AppendProxy(h, k, recs[k]), recs, k + 1)

\* load_proxies after a successful fopen: the parsed lines replace the pool
load_proxies(h, recs) ==
    LET h1 == AppendAll(del_proxy_all(h), recs, 1)
        h2 == [h1 EXCEPT !.count = Len(recs)]
    IN IF Len(recs) > 0 THEN [h2 EXCEPT !.cur = NULL] ELSE h2

\* next_proxy with the wrap at the tail left out: the cursor stays on the tail
next_cursor_nowrap(h) ==
    IF h.list = NULL THEN h.cur
    ELSE IF h.cur = NULL THEN h.list
    ELSE IF h.px[h.cur].next = NULL THEN h.cur
    ELSE h.px[h.cur].next

\* next_proxy: the cursor it leaves in xconnect.current_proxy
next_cursor(h) ==
    IF h.list = NULL THEN h.cur
    ELSE IF h.cur = NULL \/ h.px[h.cur].next = NULL THEN h.list
    ELSE h.px[h.cur].next

\* next_proxy: the value it returns
next_proxy(h) == IF h.list = NULL THEN NULL ELSE next_cursor(h)

(* ---------------------------------------------------------------------- *)
(* The validator: proxy_validator_ctx and proxy_validator_worker           *)
(* ---------------------------------------------------------------------- *)
NoCtx ==
    [items |-> <<>>, total |-> 0, next_index |-> 0, thread_count |-> 0,
     socks5_count |-> 0, socks4_count |-> 0, http_count |-> 0,
     working |-> 0, removed |-> 0, verbose |-> 0,
     index_lock |-> 0, stats_lock |-> 0, log_lock |-> 0]

\* the locals of one loop iteration of the worker, as initialised
NoLocals == [detected |-> PROXY_NONE, keep_proxy |-> 0, connect_rtt_ms |-> 0]

\* nothing written to the console
NoMsg == [text |-> "", log_lock |-> FALSE]

\* a thread not started: its position, the index it fetched, the attempt
\* it is at, its locals, and what its last step wrote to the console
NoWorker ==
    [pc |-> "none", idx |-> 0, i |-> 0, loc |-> NoLocals, msg |-> NoMsg]

\* no line in hand
NoRt ==
    [pc |-> "idle", default_type |-> PROXY_NONE, line |-> <<>>,
     file |-> <<>>, nth |-> 0, count |-> 0,
     p |-> [ok |-> FALSE, host |-> <<>>, port |-> 0, username |-> <<>>,
            password |-> <<>>, type |-> PROXY_NONE,
            detected_type |-> PROXY_NONE, is_ipv6 |-> FALSE],
     out |-> <<>>,
     q |-> [ok |-> FALSE, host |-> <<>>, port |-> 0, username |-> <<>>,
            password |-> <<>>, type |-> PROXY_NONE,
            detected_type |-> PROXY_NONE, is_ipv6 |-> FALSE]]

\* no sweep taken lock by lock: every server lets every handshake fail
NoNet == [p \in Ids |-> <<"hsfail", "hsfail", "hsfail">>]

\* the concurrency the sweep runs with, from xconnect.proxy_loader_concurrency
Concurrency(conf) ==
    LET c0 == IF conf > 0 THEN conf ELSE PROXY_VALIDATOR_DEFAULT_CONCURRENCY
        c1 == IF c0 < 1 THEN 1 ELSE c0
    IN IF c1 > PROXY_VALIDATOR_MAX_CONCURRENCY
       THEN PROXY_VALIDATOR_MAX_CONCURRENCY ELSE c1

\* thread_count = min(concurrency, total)
ThreadCount(conf, total) ==
    IF Concurrency(conf) > total THEN total ELSE Concurrency(conf)

\* the snapshot loop: every entry's validation fields are reset
ResetValidation(pxs, items) ==
    [p \in Ids |->
        IF p \in Range(items)
        THEN [pxs[p] EXCEPT !.validated = 0, !.is_active = 0,
                            !.detected_type = PROXY_NONE,
                            !.last_rtt_ms = 0, !.has_auth = 0]
        ELSE pxs[p]]

\* the attempt order with auto-detection starting at HTTP
AttemptOrder_http_first(t) ==
    IF t # PROXY_NONE THEN <<t>>
    ELSE <<PROXY_HTTP, PROXY_SOCKS5, PROXY_SOCKS4>>

\* the attempt order of one proxy
AttemptOrder(t) ==
    IF t # PROXY_NONE THEN <<t>>
    ELSE <<PROXY_SOCKS5, PROXY_SOCKS4, PROXY_HTTP>>

\* the outcome fields with the failure branch leaving the fields as they are
\* and the success branch not setting is_active
RecordOutcome_stale(r, w) ==
    IF w.keep_proxy = 1 /\ w.detected # PROXY_NONE
    THEN [r EXCEPT !.validated = 1, !.detected_type = w.detected,
                   !.type = w.detected, !.last_rtt_ms = w.connect_rtt_ms,
                   !.has_auth = IF HasCred(r) THEN 1 ELSE 0]
    ELSE r

\* the outcome fields with the success branch leaving type alone
RecordOutcome_keeptype(r, w) ==
    IF w.keep_proxy = 1 /\ w.detected # PROXY_NONE
    THEN [r EXCEPT !.validated = 1, !.is_active = 1,
                   !.detected_type = w.detected,
                   !.last_rtt_ms = w.connect_rtt_ms,
                   !.has_auth = IF HasCred(r) THEN 1 ELSE 0]
    ELSE [r EXCEPT !.validated = 0, !.is_active = 0,
                   !.detected_type = PROXY_NONE,
                   !.last_rtt_ms = 0, !.has_auth = 0]

\* the outcome fields with the success branch leaving detected_type alone
RecordOutcome_nodetect(r, w) ==
    IF w.keep_proxy = 1 /\ w.detected # PROXY_NONE
    THEN [r EXCEPT !.validated = 1, !.is_active = 1, !.type = w.detected,
                   !.last_rtt_ms = w.connect_rtt_ms,
                   !.has_auth = IF HasCred(r) THEN 1 ELSE 0]
    ELSE [r EXCEPT !.validated = 0, !.is_active = 0,
                   !.detected_type = PROXY_NONE,
                   !.last_rtt_ms = 0, !.has_auth = 0]

\* the outcome fields a worker records on its proxy
RecordOutcome(r, w) ==
    IF w.keep_proxy = 1 /\ w.detected # PROXY_NONE
    THEN [r EXCEPT !.validated = 1, !.is_active = 1,
                   !.detected_type = w.detected, !.type = w.detected,
                   !.last_rtt_ms = w.connect_rtt_ms,
                   !.has_auth = IF HasCred(r) THEN 1 ELSE 0]
    ELSE [r EXCEPT !.validated = 0, !.is_active = 0,
                   !.detected_type = PROXY_NONE,
                   !.last_rtt_ms = 0, !.has_auth = 0]

\* the counters a worker updates under stats_lock
UpdateStats(c, w) ==
    IF w.keep_proxy = 1 /\ w.detected # PROXY_NONE
    THEN [c EXCEPT
            !.working = @ + 1,
            !.socks5_count = IF w.detected = PROXY_SOCKS5 THEN @ + 1 ELSE @,
            !.socks4_count = IF w.detected = PROXY_SOCKS4 THEN @ + 1 ELSE @,
            !.http_count = IF w.detected \in {PROXY_HTTP, PROXY_HTTPS}
                           THEN @ + 1 ELSE @]
    ELSE [c EXCEPT !.removed = @ + 1]

\* the counter taken without the mutex
IndexLockFree_nolock(c) == TRUE

\* pthread_mutex_lock(&ctx->index_lock) returns once no thread holds it
IndexLockFree(c) == c.index_lock = 0

\* the removal loop run by the controlling thread after the joins
RECURSIVE RemoveLoop(_, _, _)
RemoveLoop(h, p, n) ==
    IF p = NULL \/ n = 0 THEN h
    ELSE LET nx == h.px[p].next
         IN RemoveLoop(IF h.px[p].validated = 0
                       THEN remove_proxy_from_list(h, p) ELSE h,
                       nx, n - 1)

\* the removal loop advancing by p->next->next after a removal
RECURSIVE RemoveLoop_skip(_, _, _)
RemoveLoop_skip(h, p, n) ==
    IF p = NULL \/ n = 0 THEN h
    ELSE LET nx == h.px[p].next
         IN IF h.px[p].validated = 0
            THEN RemoveLoop_skip(remove_proxy_from_list(h, p),
                                 IF nx = NULL THEN NULL ELSE h.px[nx].next,
                                 n - 1)
            ELSE RemoveLoop_skip(h, nx, n - 1)

RemoveUnvalidated_skip(h) == RemoveLoop_skip(h, h.list, MaxPool)

RemoveUnvalidated(h) == RemoveLoop(h, h.list, MaxPool)

\* the attempt loop of one proxy. env[k] is what the network does to the
\* k-th attempt: "connfail" (open_proxy_socket fails), "hsfail" (connected,
\* the handshake fails) or "ok" (connected, the handshake succeeds); rtt is
\* the connect time open_proxy_socket measures. The result is the worker's
\* locals after the loop.
RECURSIVE AttemptLoop(_, _, _, _, _)
AttemptLoop(order, env, rtt, i, loc) ==
    IF i > Len(order) THEN loc
    ELSE IF env[i] = "connfail" THEN loc
    ELSE IF env[i] = "ok"
    THEN [loc EXCEPT !.connect_rtt_ms = rtt, !.detected = order[i],
                     !.keep_proxy = 1]
    ELSE AttemptLoop(order, env, rtt, i + 1,
                     [loc EXCEPT !.connect_rtt_ms = rtt])

(* ---------------------------------------------------------------------- *)
(* Handshake traffic: requests, replies, the timed I/O helpers             *)
(* ---------------------------------------------------------------------- *)
\* at most this many waits on one proxy (for the connect, or for readiness)
\* end just before their timeout; all others end at once, or at the timeout
MaxSlow == 3

PROXY_VALIDATOR_DEFAULT_TIMEOUT_MS == 5000
\* the timeout every handshake call site passes to safe_read_with_timeout
\* and safe_write_with_timeout, in seconds
timeout_sec == 10

EINTR == "EINTR"
EAGAIN == "EAGAIN"
EWOULDBLOCK == "EWOULDBLOCK"
ECONNRESET == "ECONNRESET"
ETIMEDOUT == "ETIMEDOUT"
ENOMEM == "ENOMEM"

\* the validator's test target, its resolved address, and the credentials of
\* a proxy that has them, as bytes
test_host == <<105, 114, 99>>
test_port == 6667
dest_addr == <<10, 0, 0, 1>>
username == <<117>>
password == <<112>>

Min(a, b) == IF a < b THEN a ELSE b
Take(s, n) == SubSeq(s, 1, n)
Drop(s, n) == SubSeq(s, n + 1, Len(s))
CRLF == <<13, 10>>

\* "%d" of snprintf for n >= 0
RECURSIVE Dec(_)
Dec(n) == IF n < 10 THEN <<48 + n>> ELSE Dec(n \div 10) \o <<48 + (n % 10)>>

RECURSIVE Digits(_, _)
Digits(s, acc) ==
    IF s # <<>> /\ Head(s) \in 48 .. 57
    THEN Digits(Tail(s), acc * 10 + (Head(s) - 48))
    ELSE acc

\* atoi: leading white space, an optional sign, decimal digits
RECURSIVE atoi(_)
atoi(s) ==
    IF s = <<>> THEN 0
    ELSE IF Head(s) \in (9 .. 13) \cup {32} THEN atoi(Tail(s))
    ELSE IF Head(s) = 45 THEN 0 - Digits(Tail(s), 0)
    ELSE IF Head(s) = 43 THEN Digits(Tail(s), 0)
    ELSE Digits(s, 0)

\* base64[i] of http_connect
base64(i) ==
    IF i < 26 THEN 65 + i
    ELSE IF i < 52 THEN 97 + (i - 26)
    ELSE IF i < 62 THEN 48 + (i - 52)
    ELSE IF i = 62 THEN 43 ELSE 47

\* the encoding loop of http_connect over credentials[i ..], 1-based here
RECURSIVE b64(_, _)
b64(c, i) ==
    IF i > Len(c) THEN <<>>
    ELSE LET a == c[i]
             b == IF i + 1 <= Len(c) THEN c[i + 1] ELSE 0
             d == IF i + 2 <= Len(c) THEN c[i + 2] ELSE 0
         IN <<base64(a \div 4),
              base64((a % 4) * 16 + (b \div 16)),
              IF i + 1 <= Len(c) THEN base64((b % 16) * 4 + (d \div 64)) ELSE 61,
              IF i + 2 <= Len(c) THEN base64(d % 64) ELSE 61>>
            \o b64(c, i + 3)

\* inet_pton(AF_INET, ...): the four bytes of a dotted quad (four fields of
\* one to three decimal digits, each at most 255), or <<>> for any other
\* text
inet_pton(s) ==
    LET dots == {k \in 1 .. Len(s) : s[k] = 46}
        ok(x) == /\ Len(x) \in 1 .. 3
                 /\ \A k \in 1 .. Len(x) : x[k] \in 48 .. 57
                 /\ Digits(x, 0) <= 255
    IN IF Cardinality(dots) # 3 THEN <<>>
       ELSE LET d1 == CHOOSE d \in dots : \A e \in dots : d <= e
                d3 == CHOOSE d \in dots : \A e \in dots : e <= d
                d2 == CHOOSE d \in dots : d \notin {d1, d3}
                f == <<SubSeq(s, 1, d1 - 1), SubSeq(s, d1 + 1, d2 - 1),
                       SubSeq(s, d2 + 1, d3 - 1), SubSeq(s, d3 + 1, Len(s))>>
            IN IF \A k \in 1 .. 4 : ok(f[k])
               THEN [k \in 1 .. 4 |-> Digits(f[k], 0)]
               ELSE <<>>

\* the request of socks4_connect without the user id
socks4_request_noid(port, addr, userid) ==
    <<4, 1, (port \div 256) % 256, port % 256>> \o addr \o <<0>>

\* the request of socks4_connect
socks4_request(port, addr, userid) ==
    <<4, 1, (port \div 256) % 256, port % 256>> \o addr \o userid \o <<0>>

\* the method offer of socks5_connect
socks5_greeting(cred) == IF cred THEN <<5, 2, 0, 2>> ELSE <<5, 1, 0>>

\* the username/password sub-negotiation of socks5_connect with the length
\* bytes saturating at 255
socks5_auth_saturating(u, p) ==
    <<1, Min(Len(u), 255)>> \o u \o <<Min(Len(p), 255)>> \o p

\* the username/password sub-negotiation of socks5_connect: buf[1] = ulen
\* and buf[2 + ulen] = plen store an int in an unsigned char
socks5_auth(u, p) == <<1, Len(u) % 256>> \o u \o <<Len(p) % 256>> \o p

\* the CONNECT request of socks5_connect with the port's low byte first
socks5_request_le(host, port) ==
    <<5, 1, 0, 3, Len(host) % 256>> \o host \o <<port % 256, (port \div 256) % 256>>

\* the CONNECT request of socks5_connect
socks5_request(host, port) ==
    <<5, 1, 0, 3, Len(host) % 256>> \o host \o <<(port \div 256) % 256, port % 256>>

\* the request of http_connect
http_request(host, port, cred, u, p) ==
    <<67, 79, 78, 78, 69, 67, 84, 32>> \o host \o <<58>> \o Dec(port)
    \o <<32, 72, 84, 84, 80, 47, 49, 46, 49>> \o CRLF
    \o <<72, 111, 115, 116, 58, 32>> \o host \o <<58>> \o Dec(port) \o CRLF
    \o (IF cred
        THEN <<80, 114, 111, 120, 121, 45, 65, 117, 116, 104, 111, 114, 105,
               122, 97, 116, 105, 111, 110, 58, 32, 66, 97, 115, 105, 99, 32>>
             \o b64(Take(u \o <<58>> \o p, Min(Len(u) + 1 + Len(p), 256 - 1)), 1) \o CRLF
        ELSE <<>>)
    \o CRLF

\* "HTTP/1."
HTTP1 == <<72, 84, 84, 80, 47, 49, 46>>

\* what a proxy may send on one connection: nothing, SOCKS5 replies (no
\* authentication with an IPv4 bound address; authentication with a domain
\* bound address; no acceptable method; a reply cut after one byte), SOCKS4
\* replies (granted, rejected) and an HTTP 200
Replies ==
    { <<>>,
      <<5, 0, 5, 0, 0, 1, 1, 2, 3, 4, 0, 80>>,
      <<5, 2, 1, 0, 5, 0, 0, 3, 1, 104, 0, 80>>,
      <<5, 255>>,
      <<5>>,
      <<0, 90, 0, 0, 0, 0, 0, 0>>,
      <<0, 91, 0, 0, 0, 0, 0, 0>>,
      HTTP1 \o <<49, 32, 50, 48, 48, 32, 79, 75>> \o CRLF \o CRLF }

\* the proxies a worker takes, as <<declared type, has credentials>>:
\* auto-detect without and with credentials, https:// with credentials
JobKinds ==
    {<<PROXY_NONE, FALSE>>, <<PROXY_NONE, TRUE>>, <<PROXY_HTTPS, TRUE>>}

\* how much of the rest a write hands over: all of it, or half
WriteChunks(rest) == {rest} \cup (IF rest > 1 THEN {rest \div 2} ELSE {})

\* one worker's work on one proxy (the body of proxy_validator_worker's
\* loop); fds is the number of sockets it has open
NoJob ==
    [pc |-> "idle", type |-> PROXY_NONE, cred |-> FALSE, order |-> <<>>,
     i |-> 0, timeout_ms |-> 0, elapsed_ms |-> 0, keep_proxy |-> 0,
     detected |-> PROXY_NONE, slow |-> 0, fds |-> 0]

\* a handshake function's position: the call site it is at, the bytes it
\* holds from the proxy, the length still to skip, its return value
NoHs == [fn |-> "none", pc |-> "none", buf |-> <<>>, skip |-> 0, ret |-> 0]

\* one call of safe_read_with_timeout / safe_write_with_timeout, or one bare
\* read / write: data is the buffer (bytes stored by a read, bytes to send
\* for a write), src the peer's stream at the call, errno the error a
\* failed call leaves, t the time spent in the call, ready whether select reported the socket ready since the last
\* transfer, split whether a transfer resumed after a partial one
NoIo ==
    [pc |-> "idle", safe |-> FALSE, op |-> "none", count |-> 0, total |-> 0,
     data |-> <<>>, src |-> <<>>, ret |-> 0, errno |-> "", t |-> 0,
     timeout_sec |-> 0, ready |-> FALSE, split |-> FALSE]

\* the proxy's end of the connection: the bytes it has yet to deliver,
\* whether it closes after them, the bytes it has received
NoPeer == [inbox |-> <<>>, eof |-> FALSE, got |-> <<>>]

\* n = read(sockfd, ptr, ...): the chunk lands at the start of the buffer
StoreAt_base(data, total, chunk) ==
    chunk \o SubSeq(data, Len(chunk) + 1, Len(data))

\* n = read(sockfd, ptr + total, count - total)
StoreAt(data, total, chunk) == Take(data, total) \o chunk

HandshakeFn(t) ==
    IF t = PROXY_SOCKS5 THEN "socks5"
    ELSE IF t = PROXY_SOCKS4 THEN "socks4"
    ELSE IF t \in {PROXY_HTTP, PROXY_HTTPS} THEN "http"
    ELSE "none"

\* perform_proxy_handshake entering the handshake function; resolved is
\* whether socks4_connect obtains the destination address
HsStart(t, resolved) ==
    LET fn == HandshakeFn(t) IN
    IF fn = "none" THEN [NoHs EXCEPT !.pc = "done", !.ret = -1]
    ELSE IF fn = "socks4" /\ ~resolved
    THEN [NoHs EXCEPT !.fn = fn, !.pc = "done", !.ret = -1]
    ELSE [NoHs EXCEPT !.fn = fn,
                      !.pc = IF fn = "socks5" THEN "greet_w" ELSE "req_w"]

Sites == {"greet_w", "greet_r", "auth_w", "auth_r", "req_w", "req_r",
          "alen_r", "skip_r", "rep_r", "resp_r"}

WriteCall(d) == [op |-> "write", data |-> d, count |-> Len(d)]
ReadCall(n) == [op |-> "read", data |-> <<>>, count |-> n]

\* the arguments perform_proxy_handshake passes: the test destination and
\* the proxy's credentials (null holds the names of the pointers that are
\* NULL: both where the proxy has no credentials)
SweepArgs(cred) ==
    [host |-> test_host, port |-> test_port, addr |-> dest_addr,
     user |-> IF cred THEN username ELSE <<>>,
     pass |-> IF cred THEN password ELSE <<>>,
     null |-> IF cred THEN {} ELSE {"username", "password"}]

\* username && password && *username && *password
use_auth(a) == a.null = {} /\ a.user # <<>> /\ a.pass # <<>>

\* the read or write the handshake function makes at its call site, a
\* being its arguments
HsCallOn(h, a, impl) ==
    LET u == a.user
        p == a.pass
        cred == use_auth(a)
    IN
    IF h.fn = "socks5" THEN
        CASE h.pc = "greet_w" -> WriteCall(socks5_greeting(cred))
          [] h.pc = "greet_r" -> ReadCall(2)
          [] h.pc = "auth_w" -> WriteCall(socks5_auth(u, p))
          [] h.pc = "auth_r" -> ReadCall(2)
          [] h.pc = "req_w" ->
                 WriteCall(socks5_request(a.host, a.port))
          [] h.pc = "req_r" -> ReadCall(4)
          [] h.pc = "alen_r" -> ReadCall(1)
          [] OTHER -> ReadCall(IF impl = "safe" THEN Min(h.skip, 256)
                                ELSE h.skip)
    ELSE IF h.fn = "socks4" THEN
        CASE h.pc = "req_w" ->
                 WriteCall(socks4_request(a.port, a.addr, u))
          [] OTHER -> ReadCall(8)
    ELSE
        CASE h.pc = "req_w" ->
                 WriteCall(http_request(a.host, a.port, cred, u, p))
          [] OTHER -> ReadCall(1)

\* the same in a sweep
HsCall(h, cred, impl) == HsCallOn(h, SweepArgs(cred), impl)

\* one call of connect_through_proxy: its position, the proxy's type, the
\* arguments it hands to the handshake function, all that the server on
\* the socket is going to send, the caller's socket (none, open, closed),
\* the value returned and the path that returned it
NoCall ==
    [pc |-> "idle", type |-> PROXY_NONE, args |-> SweepArgs(FALSE),
     reply |-> <<>>, sock |-> "none", ret |-> 0, path |-> ""]

\* a failure return of connect_through_proxy that closes the socket first
DialFail_close(c, path) ==
    [c EXCEPT !.pc = "returned", !.ret = -1, !.path = path, !.sock = "closed"]

\* return -1 in connect_through_proxy
DialFail(c, path) == [c EXCEPT !.pc = "returned", !.ret = -1, !.path = path]

HsFail(h) == [h EXCEPT !.pc = "done", !.ret = -1]
HsOk(h) == [h EXCEPT !.pc = "done", !.ret = 0]
HsGoto(h, pc) == [h EXCEPT !.pc = pc]

\* the end of http_connect: the status line of the response in buf
http_status(h) ==
    IF Len(h.buf) < 7 \/ Take(h.buf, 7) # HTTP1 THEN HsFail(h)
    ELSE IF atoi(Drop(h.buf, 9)) # 200 THEN HsFail(h)
    ELSE HsOk(h)

\* the handshake function from the return of the call at its site (count
\* is the length asked for, n the value returned, data the bytes a read
\* stored) to its next call or its return
HsResume(h, cred, impl, count, n, data) ==
    IF h.fn = "socks5" THEN
        CASE h.pc = "greet_w" ->
                 IF n # count THEN HsFail(h) ELSE HsGoto(h, "greet_r")
          [] h.pc = "greet_r" ->
                 IF n # 2 THEN HsFail(h)
                 ELSE IF data[1] # 5 THEN HsFail(h)
                 ELSE IF data[2] = 2
                 THEN HsGoto(h, IF cred THEN "auth_w" ELSE "strlen_null")
                 ELSE IF data[2] # 0 THEN HsFail(h)
                 ELSE HsGoto(h, "req_w")
          [] h.pc = "auth_w" ->
                 IF n # count THEN HsFail(h) ELSE HsGoto(h, "auth_r")
          [] h.pc = "auth_r" ->
                 IF n # 2 THEN HsFail(h)
                 ELSE IF data[2] # 0 THEN HsFail(h)
                 ELSE HsGoto(h, "req_w")
          [] h.pc = "req_w" ->
                 IF n # count THEN HsFail(h) ELSE HsGoto(h, "req_r")
          [] h.pc = "req_r" ->
                 IF n < 4 THEN HsFail(h)
                 ELSE IF data[2] # 0 THEN HsFail(h)
                 ELSE IF data[4] = 1
                 THEN [h EXCEPT !.pc = "skip_r", !.skip = 4 + 2]
                 ELSE IF data[4] = 3 THEN HsGoto(h, "alen_r")
                 ELSE IF data[4] = 4
                 THEN [h EXCEPT !.pc = "skip_r", !.skip = 16 + 2]
                 ELSE HsOk(h)
          [] h.pc = "alen_r" ->
                 IF n # 1 THEN HsFail(h)
                 ELSE [h EXCEPT !.pc = "skip_r", !.skip = data[1] + 2]
          [] OTHER ->
                 IF impl = "safe" /\ n # count THEN HsFail(h) ELSE HsOk(h)
    ELSE IF h.fn = "socks4" THEN
        CASE h.pc = "req_w" ->
                 IF n # count THEN HsFail(h) ELSE HsGoto(h, "rep_r")
          [] OTHER ->
                 IF n # 8 THEN HsFail(h)
                 ELSE IF data[1] # 0 \/ data[2] # 90 THEN HsFail(h)
                 ELSE HsOk(h)
    ELSE
        CASE h.pc = "req_w" ->
                 IF n # count THEN HsFail(h) ELSE HsGoto(h, "resp_r")
          [] OTHER ->
                 IF n <= 0 THEN HsFail(h)
                 ELSE LET buf == h.buf \o Take(data, n)
                          len == Len(buf)
                          got == [h EXCEPT !.buf = buf]
                      IN IF (len >= 4 /\ Drop(buf, len - 4) = CRLF \o CRLF)
                            \/ ~(len < 2048 - 1)
                         THEN http_status(got)
                         ELSE got

(* ---------------------------------------------------------------------- *)
(* Inputs                                                                  *)
(* ---------------------------------------------------------------------- *)
\* the records a proxy file's lines parse to: auto-detect without
\* credentials, https:// with credentials
SampleRecs ==
    {ParsedRec(PROXY_NONE, FALSE), ParsedRec(PROXY_HTTPS, TRUE)}

\* the proxy files that can be opened, the names that cannot, and the
\* default types given to load_proxies
FileNames == {"proxies.txt"}
MissingFiles == {"missing.txt"}
DefaultTypes == {PROXY_NONE, PROXY_HTTPS}

\* the parse results of the lines of a proxy file, in file order
Files == UNION {[1 .. n -> SampleRecs] : n \in 0 .. MaxPool}

\* what the network does to the (at most three) attempts on one proxy
\* (an attempt after a decisive one is never made: it is fixed to "hsfail")
Envs ==
    {e \in [1 .. 3 -> {"connfail", "hsfail", "ok"}] :
        \A k \in 1 .. 3 : e[k] # "hsfail" => \A j \in k + 1 .. 3 : e[j] = "hsfail"}

\* connect round-trip times, in ms
Rtts == {7}

SetHeapInit ==
    /\ px = EmptyHeap.px
    /\ proxy_list = NULL
    /\ proxy_tail = NULL
    /\ current_proxy = NULL
    /\ proxy_count = 0
    /\ xconnect = NoSource

(* ---------------------------------------------------------------------- *)
(* Operations of the controlling thread                                    *)
(* ---------------------------------------------------------------------- *)
SetHeap(h) ==
    /\ px' = h.px
    /\ proxy_list' = h.list
    /\ proxy_tail' = h.tail
    /\ current_proxy' = h.cur
    /\ proxy_count' = h.count

NoObs == [i \in Ids |-> 0]

\* load_proxies(filename, default_type), the file opened: a line without
\* a scheme has the default type, so with a default other than NONE no
\* record has type NONE
Load ==
    /\ mainpc = "idle"
    /\ \E filename \in FileNames, default_type \in DefaultTypes :
       \E recs \in Files :
         /\ default_type # PROXY_NONE =>
               \A i \in 1 .. Len(recs) : recs[i].type # PROXY_NONE
         /\ SetHeap(load_proxies(Heap, recs))
         /\ xconnect' = remember(xconnect, filename, default_type, Len(recs))
         /\ ret' = Len(recs)
    /\ lastOp' = "load"
    /\ UNCHANGED <<sweepVars, claimed, wrote>>
    /\ UNCHANGED ioVars

\* load_proxies(filename, default_type), fopen fails
LoadUnopened ==
    /\ mainpc = "idle"
    /\ \E filename \in FileNames \cup MissingFiles :
       \E default_type \in DefaultTypes :
         LET r == load_proxies_unopened(Heap, xconnect, filename, default_type)
         IN /\ SetHeap(r.heap)
            /\ xconnect' = r.xconnect
            /\ ret' = r.ret
    /\ lastOp' = "load_unopened"
    /\ UNCHANGED <<sweepVars, claimed, wrote>>
    /\ UNCHANGED ioVars

\* del_proxy_all(), the "proxy clear" verb
Clear ==
    /\ mainpc = "idle"
    /\ SetHeap(del_proxy_all(Heap))
    /\ UNCHANGED xconnect
    /\ lastOp' = "clear"
    /\ ret' = 0
    /\ UNCHANGED <<sweepVars, claimed, wrote>>
    /\ UNCHANGED ioVars

\* next_proxy()
NextProxy ==
    /\ mainpc = "idle"
    /\ current_proxy' = next_cursor(Heap)
    /\ ret' = next_proxy(Heap)
    /\ lastOp' = "next"
    /\ UNCHANGED <<px, proxy_list, proxy_tail, proxy_count, xconnect,
                   sweepVars, claimed, wrote>>
    /\ UNCHANGED ioVars

\* check_and_validate_proxies on an empty pool
SweepEmpty ==
    /\ mainpc = "idle"
    /\ proxy_list = NULL \/ proxy_count <= 0
    /\ ret' = -1
    /\ lastOp' = "sweep_empty"
    /\ UNCHANGED <<poolVars, sweepVars, claimed, wrote>>
    /\ UNCHANGED ioVars

\* check_and_validate_proxies up to the joins: snapshot, reset, thread start.
\* conf is xconnect.proxy_loader_concurrency; pthread_create succeeds for the
\* first `created` threads.
BeginSweep ==
    /\ mainpc = "idle"
    /\ proxy_list # NULL /\ proxy_count > 0
    /\ \E conf \in 0 .. MaxConc :
       \E created \in 0 .. ThreadCount(conf, proxy_count) :
         /\ ctx' = [NoCtx EXCEPT !.items = Walk(px, proxy_list, proxy_count),
                                 !.total = proxy_count,
                                 !.thread_count = created]
         /\ wk' = [w \in Workers |->
                     IF w <= created THEN [NoWorker EXCEPT !.pc = "start"]
                     ELSE NoWorker]
    /\ px' = ResetValidation(px, PoolSeq)
    /\ mainpc' = "join"
    /\ lastOp' = "begin"
    /\ ret' = 0
    /\ claimed' = NoObs
    /\ wrote' = NoObs
    /\ UNCHANGED <<proxy_list, proxy_tail, current_proxy, proxy_count,
                   xconnect>>
    /\ UNCHANGED ioVars

\* the removal loop entered without waiting for the workers
AllJoined_nowait == TRUE

\* every started worker has returned (pthread_join succeeds on each)
AllJoined == \A w \in 1 .. ctx.thread_count : wk[w].pc = "exit"

\* check_and_validate_proxies from the joins on: removal, the context is
\* destroyed, the working count is returned
FinishSweep ==
    /\ mainpc = "join"
    /\ AllJoined
    /\ SetHeap(RemoveUnvalidated(Heap))
    /\ UNCHANGED xconnect
    /\ ret' = ctx.working
    /\ lastOp' = "sweep"
    /\ mainpc' = "idle"
    /\ ctx' = NoCtx
    /\ wk' = [w \in Workers |-> NoWorker]
    /\ claimed' = NoObs
    /\ wrote' = NoObs
    /\ UNCHANGED ioVars

(* ---------------------------------------------------------------------- *)
(* proxy_validator_worker, one step at a time                              *)
(* ---------------------------------------------------------------------- *)
\* pthread_mutex_lock(&ctx->index_lock), then the load of the counter in
\* idx = ctx->next_index++
W_Fetch(w) ==
    /\ wk[w].pc = "start"
    /\ IndexLockFree(ctx)
    /\ ctx' = [ctx EXCEPT !.index_lock = w]
    /\ wk' = [wk EXCEPT ![w] = [NoWorker EXCEPT !.pc = "store",
                                                !.idx = ctx.next_index]]
    /\ UNCHANGED <<poolVars, mainpc, obsVars>>
    /\ UNCHANGED ioVars

\* idx = ctx->next_index++, the store of the counter; the unlock; and the
\* test idx >= ctx->total that ends the worker
W_Claim(w) ==
    /\ wk[w].pc = "store"
    /\ ctx' = [ctx EXCEPT !.next_index = wk[w].idx + 1, !.index_lock = 0]
    /\ IF wk[w].idx >= ctx.total
       THEN /\ wk' = [wk EXCEPT ![w] = [NoWorker EXCEPT !.pc = "exit"]]
            /\ UNCHANGED claimed
       ELSE /\ wk' = [wk EXCEPT ![w].pc = "work"]
            /\ claimed' = [claimed EXCEPT ![wk[w].idx + 1] = @ + 1]
    /\ UNCHANGED <<poolVars, mainpc, lastOp, ret, wrote>>
    /\ UNCHANGED ioVars

\* the rest of the loop body on the claimed proxy: the attempt loop (sockets
\* and handshakes), the outcome written on the proxy, the counters updated
\* under stats_lock, and back to the head of the loop
W_Validate(w) ==
    /\ wk[w].pc = "work"
    /\ LET p == ctx.items[wk[w].idx + 1] IN
       \E env \in Envs, rtt \in Rtts :
         LET loc == AttemptLoop(AttemptOrder(px[p].type), env, rtt, 1, NoLocals)
         IN /\ px' = [px EXCEPT ![p] = RecordOutcome(px[p], loc)]
            /\ ctx' = UpdateStats(ctx, loc)
            /\ wrote' = [wrote EXCEPT ![p] = @ + 1]
    /\ wk' = [wk EXCEPT ![w].pc = "start"]
    /\ UNCHANGED <<proxy_list, proxy_tail, current_proxy, proxy_count,
                   xconnect, mainpc, lastOp, ret, claimed>>
    /\ UNCHANGED ioVars

Worker(w) ==
    \/ W_Fetch(w)
    \/ W_Claim(w)
    \/ W_Validate(w)

(* ---------------------------------------------------------------------- *)
(* One worker on one proxy: sockets, handshakes, timed I/O                 *)
(* ---------------------------------------------------------------------- *)
\* what the worker's steps on the network leave alone
poolIdle == <<poolVars, sweepVars, obsVars, call>>

\* the ways through open_proxy_socket: socket() fails, fcntl fails,
\* connect fails at once, the deadline passes, poll fails, getsockopt
\* fails, SO_ERROR is set, connect succeeds at once, poll reports the
\* socket connected
OpenPaths == {"socket", "fcntl", "connect", "timeout", "poll", "getsockopt",
              "so_error", "connected", "polled"}

\* open_proxy_socket with the return on SO_ERROR not closing the socket
open_proxy_socket_leak(path) ==
    [sockfd |-> IF path \in {"connected", "polled"} THEN 3 ELSE -1,
     opened |-> IF path = "socket" THEN 0 ELSE 1,
     closed |-> IF path \in {"fcntl", "connect", "timeout", "poll",
                              "getsockopt"}
                THEN 1 ELSE 0]

\* open_proxy_socket along one of its ways: the value returned, the
\* sockets it opened and those it closed
open_proxy_socket(path) ==
    [sockfd |-> IF path \in {"connected", "polled"} THEN 3 ELSE -1,
     opened |-> IF path = "socket" THEN 0 ELSE 1,
     closed |-> IF path \in {"fcntl", "connect", "timeout", "poll",
                              "getsockopt", "so_error"}
                THEN 1 ELSE 0]

Spend(d) == [job EXCEPT !.elapsed_ms = @ + d,
                        !.slow = IF d = 0 THEN @ ELSE @ + 1]

\* the worker takes a proxy: start_ms, the attempt order
V_Begin ==
    /\ job.pc = "idle"
    /\ \E k \in JobKinds :
         job' = [NoJob EXCEPT !.pc = "open", !.type = k[1], !.cred = k[2],
                              !.order = AttemptOrder(k[1]), !.i = 1,
                              !.timeout_ms = PROXY_VALIDATOR_DEFAULT_TIMEOUT_MS]
    /\ UNCHANGED <<rt, net, handshake_io, hs, io, peer, poolIdle>>

\* the head of the attempt loop and open_proxy_socket: the connect fails (at
\* once, or by timeout) and ends the loop, or succeeds (at once, or just
\* within the timeout) and the handshake function is entered
V_Open ==
    /\ job.pc = "open"
    /\ IF job.i > Len(job.order)
       THEN /\ job' = [job EXCEPT !.pc = "done"]
            /\ UNCHANGED <<hs, peer>>
       ELSE \/ /\ \E path \in OpenPaths :
                    LET r == open_proxy_socket(path)
                        d == IF path = "timeout" THEN job.timeout_ms ELSE 0
                    IN /\ r.sockfd < 0
                       /\ job' = [job EXCEPT
                                    !.pc = "done", !.elapsed_ms = @ + d,
                                    !.fds = @ + r.opened - r.closed]
               /\ UNCHANGED <<hs, peer>>
            \/ /\ \E path \in OpenPaths :
                    LET r == open_proxy_socket(path) IN
                    /\ r.sockfd >= 0
                    /\ \E d \in IF path = "connected" THEN {0}
                                 ELSE {0, job.timeout_ms - 1} :
                         /\ d > 0 => job.slow < MaxSlow
                         /\ job' = [Spend(d) EXCEPT
                                      !.pc = "handshake",
                                      !.fds = @ + r.opened - r.closed]
               /\ \E r \in Replies, e \in BOOLEAN :
                    peer' = [inbox |-> r, eof |-> e, got |-> <<>>]
               /\ \E resolved \in BOOLEAN :
                    hs' = HsStart(job.order[job.i], resolved)
    /\ UNCHANGED <<rt, net, handshake_io, io, poolIdle>>

\* the handshake function calls safe_read_with_timeout or
\* safe_write_with_timeout (or, in the definitions without them, read or
\* write)
HS_Issue ==
    /\ job.pc = "handshake"
    /\ hs.pc \in Sites
    /\ io.pc = "idle"
    /\ LET c == HsCall(hs, job.cred, handshake_io)
           safe == handshake_io = "safe"
       IN io' = [NoIo EXCEPT
                   !.pc = IF ~safe THEN "xfer"
                          ELSE IF 0 < c.count THEN "select" ELSE "ret",
                   !.safe = safe, !.op = c.op, !.count = c.count,
                   !.data = c.data,
                   !.src = IF c.op = "read" THEN peer.inbox ELSE peer.got,
                   !.timeout_sec = IF safe THEN timeout_sec ELSE 0]
    /\ UNCHANGED <<rt, net, handshake_io, job, hs, peer, poolIdle>>

SelectErrnos == {EINTR, EAGAIN, ENOMEM}
TransferErrnos == {EAGAIN, EWOULDBLOCK, EINTR, ECONNRESET}

\* tv.tv_sec = timeout_sec; ret = select(...) and the tests on ret
IO_Select ==
    /\ io.pc = "select"
    /\ LET tv == 1000 * io.timeout_sec IN
       \/ \E d \in {0, tv - 1} :
            /\ d > 0 => job.slow < MaxSlow
            /\ io' = [io EXCEPT !.pc = "xfer", !.ready = TRUE, !.t = @ + d]
            /\ job' = Spend(d)
       \/ /\ io' = [io EXCEPT !.pc = "ret", !.ret = -1, !.errno = ETIMEDOUT,
                              !.t = @ + tv]
          /\ job' = [job EXCEPT !.elapsed_ms = @ + tv]
       \/ /\ \E e \in SelectErrnos :
               io' = IF e = EINTR THEN io
                     ELSE [io EXCEPT !.pc = "ret", !.ret = -1, !.errno = e]
          /\ UNCHANGED job
    /\ UNCHANGED <<rt, net, handshake_io, hs, peer, poolIdle>>

\* the value a call returns when its transfer moved the total to tot
AfterTransfer(tot) ==
    [io EXCEPT !.total = tot, !.ready = FALSE,
               !.split = @ \/ (io.total > 0),
               !.pc = IF ~io.safe \/ ~(tot < io.count) THEN "ret" ELSE "select",
               !.ret = IF ~io.safe \/ ~(tot < io.count) THEN tot ELSE @]

\* the value a call returns when its transfer failed with errno e
AfterError(e) ==
    IF io.safe /\ e \in {EAGAIN, EWOULDBLOCK}
    THEN [io EXCEPT !.pc = "select", !.ready = FALSE]
    ELSE [io EXCEPT !.pc = "ret", !.ret = -1, !.errno = e, !.ready = FALSE]

\* n = read(...) or n = write(...) and the tests on n. A read takes some of
\* the bytes the proxy has yet to deliver; it returns 0 once the proxy has
\* closed. A write hands some of the remaining bytes to the proxy.
IO_Xfer ==
    /\ io.pc = "xfer"
    /\ IF io.op = "read"
       THEN \/ \E k \in 1 .. Min(Len(peer.inbox), io.count - io.total) :
                 /\ io' = [AfterTransfer(io.total + k) EXCEPT
                             !.data = StoreAt(io.data, io.total,
                                              Take(peer.inbox, k))]
                 /\ peer' = [peer EXCEPT !.inbox = Drop(@, k)]
            \/ /\ \E e \in TransferErrnos :
                    /\ e \in {EAGAIN, EWOULDBLOCK}
                         => ~(peer.inbox = <<>> /\ peer.eof)
                    /\ io' = AfterError(e)
               /\ UNCHANGED peer
            \/ /\ peer.inbox = <<>> /\ peer.eof
               /\ io' = [io EXCEPT
                           !.pc = "ret", !.ready = FALSE,
                           !.errno = IF io.safe THEN ECONNRESET ELSE @,
                           !.ret = IF io.safe /\ io.total = 0 THEN -1
                                   ELSE io.total]
               /\ UNCHANGED peer
       ELSE \/ \E k \in WriteChunks(io.count - io.total) :
                 /\ io' = AfterTransfer(io.total + k)
                 /\ peer' = [peer EXCEPT
                               !.got = @ \o SubSeq(io.data, io.total + 1,
                                                   io.total + k)]
            \/ /\ \E e \in TransferErrnos : io' = AfterError(e)
               /\ UNCHANGED peer
    /\ UNCHANGED <<rt, net, handshake_io, job, hs, poolIdle>>

\* the call returns into the handshake function
HS_Resume ==
    /\ io.pc = "ret"
    /\ hs' = HsResume(hs, job.cred, handshake_io, io.count, io.ret, io.data)
    /\ io' = NoIo
    /\ UNCHANGED <<rt, net, handshake_io, job, peer, poolIdle>>

\* socks5_connect without credentials when the proxy selects method 2:
\* strlen(username) on a null pointer. The thread faults, or reads lengths
\* of zero and goes on.
HS_NullDeref ==
    /\ hs.pc = "strlen_null"
    /\ \/ hs' = HsGoto(hs, "auth_w")
       \/ hs' = HsGoto(hs, "fault")
    /\ UNCHANGED <<rt, net, handshake_io, job, io, peer, poolIdle>>

\* perform_proxy_handshake has returned: close(sockfd), and the loop breaks
\* with the type detected or goes to the next type
V_AttemptEnd ==
    /\ job.pc = "handshake"
    /\ hs.pc \in {"done", "fault"}
    /\ job' = IF hs.pc = "fault" THEN [job EXCEPT !.pc = "fault"]
              ELSE IF hs.ret = 0
              THEN [job EXCEPT !.pc = "done", !.keep_proxy = 1,
                               !.detected = job.order[job.i],
                               !.fds = @ - 1]
              ELSE [job EXCEPT !.pc = "open", !.i = @ + 1, !.fds = @ - 1]
    /\ hs' = NoHs
    /\ peer' = NoPeer
    /\ UNCHANGED <<rt, net, handshake_io, io, poolIdle>>

\* elapsed_ms is taken and the outcome recorded; the worker is free for its
\* next proxy (after a fault the process is gone and a new one starts)
V_Finish ==
    /\ job.pc \in {"done", "fault"}
    /\ job' = NoJob
    /\ UNCHANGED <<rt, net, handshake_io, hs, io, peer, poolIdle>>

(* ---------------------------------------------------------------------- *)
(* The pool and its validator                                              *)
(* ---------------------------------------------------------------------- *)
vars == <<px, proxy_list, proxy_tail, current_proxy, proxy_count, xconnect,
          mainpc, ctx, wk, lastOp, ret, claimed, wrote,
          handshake_io, job, hs, io, peer, call, net, rt>>

\* the pool empty, no sweep running
InitPool ==
    /\ SetHeapInit
    /\ mainpc = "idle"
    /\ ctx = NoCtx
    /\ wk = [w \in Workers |-> NoWorker]
    /\ lastOp = "init"
    /\ ret = 0
    /\ claimed = NoObs
    /\ wrote = NoObs

\* no proxy taken, no socket open
InitJob ==
    /\ job = NoJob
    /\ hs = NoHs
    /\ io = NoIo
    /\ peer = NoPeer
    /\ call = NoCall
    /\ net = NoNet
    /\ rt = NoRt

Init ==
    /\ InitPool
    /\ InitJob
    /\ handshake_io = "safe"

Next ==
    \/ Load
    \/ LoadUnopened
    \/ Clear
    \/ NextProxy
    \/ SweepEmpty
    \/ BeginSweep
    \/ FinishSweep
    \/ \E w \in Workers : Worker(w)

Spec == Init /\ [][Next]_vars

(* ---------------------------------------------------------------------- *)
(* One worker on the network                                               *)
(* ---------------------------------------------------------------------- *)
InitIO ==
    /\ InitPool
    /\ InitJob
    /\ handshake_io \in {"safe", "bare"}

NextIO ==
    \/ V_Begin
    \/ V_Open
    \/ HS_Issue
    \/ IO_Select
    \/ IO_Xfer
    \/ HS_Resume
    \/ HS_NullDeref
    \/ V_AttemptEnd
    \/ V_Finish

SpecIO == InitIO /\ [][NextIO]_vars

\* the worker's thread is scheduled: a step it can take is taken in the
\* end. Which of the events a select, read or write meets remains the
\* network's choice.
SpecIOLive == SpecIO /\ WF_vars(NextIO)

(* ---------------------------------------------------------------------- *)
(* The handshake functions over their arguments and the proxy's replies    *)
(* ---------------------------------------------------------------------- *)
Str(n, c) == [k \in 1 .. n |-> c]

\* destinations: "irc", "h", a name of 255 bytes, "1.2.3.4"; ports with a zero and a
\* non-zero high byte
Hosts == {test_host, Str(1, 104), Str(255, 104),
          <<49, 46, 50, 46, 51, 46, 52>>}
Ports == {test_port, 80, 65535}

\* credentials as <<user, pass, null>>: none, one byte each, 255 and 254
\* bytes, 255 bytes each, a user name of 256 bytes, a password of 300
\* bytes, an empty user name, a user name without a password
Credentials ==
    { <<<<>>, <<>>, {"username", "password"}>>,
      <<username, password, {}>>,
      <<Str(255, 117), Str(254, 112), {}>>,
      <<Str(255, 117), Str(255, 112), {}>>,
      <<Str(256, 117), password, {}>>,
      <<username, Str(300, 112), {}>>,
      <<<<>>, password, {}>>,
      <<username, <<>>, {"password"}>> }

Arguments ==
    { [host |-> h, port |-> p,
       addr |-> IF inet_pton(h) # <<>> THEN inet_pton(h) ELSE dest_addr,
       user |-> c[1], pass |-> c[2], null |-> c[3]] :
         h \in Hosts, p \in Ports, c \in Credentials }

\* the replies a SOCKS5 server may give to CONNECT: granted with an IPv4,
\* an IPv6 and a domain bound address (of length 0, 1, 254, 255), refused,
\* granted with an address type of no meaning, cut short
BndReplies ==
    { <<5, 0, 0, 1>> \o Str(4 + 2, 7),
      <<5, 0, 0, 4>> \o Str(16 + 2, 7),
      <<5, 0, 0, 3, 0>> \o Str(2, 7),
      <<5, 0, 0, 3, 1>> \o Str(1 + 2, 7),
      <<5, 0, 0, 3, 254>> \o Str(254 + 2, 7),
      <<5, 0, 0, 3, 255>> \o Str(255 + 2, 7),
      <<5, 1, 0, 1>> \o Str(4 + 2, 7),
      <<5, 0, 0, 9>>,
      <<5, 0, 0, 1>> \o Str(3, 7) }

\* what a server sends to socks5_connect: a method selection (none, user
\* name and password accepted or refused, no acceptable method, another
\* version, another method) and then a reply to CONNECT
Socks5Scripts ==
    { g \o b : g \in {<<5, 0>>, <<5, 2, 1, 0>>}, b \in BndReplies }
    \cup { <<5, 2, 1, 1>>, <<5, 255>>, <<4, 0>>, <<5, 1>>, <<5>>, <<>> }

\* what a server sends to socks4_connect
Socks4Scripts ==
    { <<0, 90>> \o Str(6, 0), <<0, 91>> \o Str(6, 0), <<4, 90>> \o Str(6, 0),
      <<0, 90>> \o Str(5, 0), <<0, 90>> \o Str(7, 0), <<>> }

\* the text of a response head: the status line, CR LF, an empty line
Head1(status) == status \o CRLF \o CRLF

\* what a server sends to http_connect: "HTTP/1.1 200 OK", "HTTP/1.0 200",
\* "HTTP/1.1 407 A", "HTTP/1.1 404 N", "HTTP/2.0 200", "HTTP/1.1 0200 OK",
\* "HTTP/1.1 200abc", "HTTP/1.1  200 OK", "HTTP/1.1 20", "HTTP/1.", an
\* unfinished head, "HTTP/1.1 200 OK" followed by two bytes of the tunnel,
\* nothing
HttpScripts ==
    { Head1(HTTP1 \o <<49, 32, 50, 48, 48, 32, 79, 75>>),
      Head1(HTTP1 \o <<48, 32, 50, 48, 48>>),
      Head1(HTTP1 \o <<49, 32, 52, 48, 55, 32, 65>>),
      Head1(HTTP1 \o <<49, 32, 52, 48, 52, 32, 78>>),
      Head1(<<72, 84, 84, 80, 47, 50, 46, 48, 32, 50, 48, 48>>),
      Head1(HTTP1 \o <<49, 32, 48, 50, 48, 48, 32, 79, 75>>),
      Head1(HTTP1 \o <<49, 32, 50, 48, 48, 97, 98, 99>>),
      Head1(HTTP1 \o <<49, 32, 32, 50, 48, 48, 32, 79, 75>>),
      Head1(HTTP1 \o <<49, 32, 50, 48>>),
      Head1(HTTP1),
      HTTP1 \o <<49, 32, 50, 48, 48, 32, 79, 75>> \o CRLF,
      Head1(HTTP1 \o <<49, 32, 50, 48, 48, 32, 79, 75>>) \o <<58, 41>>,
      <<>> }

\* "HTTP/1.1 200 OK", CR LF, a header line of 2048 bytes, CR LF, an empty
\* line: a head longer than char buf[2048] of http_connect
LongHead ==
    HTTP1 \o <<49, 32, 50, 48, 48, 32, 79, 75>> \o CRLF
    \o Str(2048, 97) \o CRLF \o CRLF

\* the scripts a call is run against (the long head with one set of
\* arguments only)
ScriptsFor(fn, a) ==
    IF fn = "socks5" THEN Socks5Scripts
    ELSE IF fn = "socks4" THEN Socks4Scripts
    ELSE HttpScripts \cup (IF a = SweepArgs(FALSE) THEN {LongHead} ELSE {})

\* connect_through_proxy(sockfd, p, dest_host, dest_port) is called with
\* the caller's open socket; p may be NULL
D_Enter ==
    /\ call.pc = "idle"
    /\ job.pc = "idle"
    /\ \/ \E t \in proxy_type, a \in Arguments :
            call' = [NoCall EXCEPT !.pc = "connect", !.type = t, !.args = a,
                                   !.sock = "open"]
       \/ call' = DialFail([NoCall EXCEPT !.sock = "open"], "null")
    /\ UNCHANGED <<rt, net, handshake_io, job, hs, io, peer,
                   poolVars, sweepVars, obsVars>>

\* connect, select on writability, SO_ERROR, the switch on p->type: each
\* may end the call; else the handshake is next
D_Connect ==
    /\ call.pc = "connect"
    /\ \/ \E path \in {"connect", "select", "so_error"} :
            call' = DialFail(call, path)
       \/ call' = IF HandshakeFn(call.type) = "none"
                  THEN DialFail(call, "type")
                  ELSE [call EXCEPT !.pc = "dispatch"]
    /\ UNCHANGED <<rt, net, handshake_io, job, hs, io, peer,
                   poolVars, sweepVars, obsVars>>

\* connect_through_proxy calls socks5_connect, socks4_connect or
\* http_connect on the connected socket
H_Call ==
    /\ call.pc = "dispatch"
    /\ \E r \in ScriptsFor(HandshakeFn(call.type), call.args) :
         /\ \E resolved \in BOOLEAN :
              /\ inet_pton(call.args.host) # <<>> => resolved
              /\ hs' = HsStart(call.type, resolved)
         /\ peer' = [inbox |-> r, eof |-> TRUE, got |-> <<>>]
         /\ call' = [call EXCEPT !.pc = "called", !.reply = r]
    /\ UNCHANGED <<rt, net, handshake_io, job, io, poolVars, sweepVars, obsVars>>

\* unsigned char buf[512] of socks5_connect and the memcpy of the user name
\* and the password into it: past its end when they are too long together
BufferCheck(h, a) ==
    IF h.fn = "socks5" /\ h.pc = "auth_w"
       /\ 3 + Len(a.user) + Len(a.pass) > 512
    THEN HsGoto(h, "overflow")
    ELSE h

\* the read loop of http_connect from len = 0 to its end, the server's
\* stream being inbox: one byte at a time until the last four are CR LF CR
\* LF or len is sizeof(buf) - 1, then the status line is looked at; a read
\* that finds nothing returns <= 0 and the function fails
http_read_head(h, inbox) ==
    LET lim == Min(Len(inbox), 2048 - 1)
        ends == {k \in 4 .. lim : SubSeq(inbox, k - 3, k) = CRLF \o CRLF}
        len == IF ends = {} THEN lim
               ELSE CHOOSE k \in ends : \A j \in ends : k <= j
    IN IF ends = {} /\ lim < 2048 - 1
       THEN [len |-> lim, hs |-> HsFail(h)]
       ELSE [len |-> len, hs |-> http_status([h EXCEPT !.buf = Take(inbox, len)])]

\* the call the function makes at its site, carried out in one step: a
\* write is taken whole or fails; a read gets the count asked for when the
\* server sent that much, else what there is (nothing: -1 from the timed
\* read, 0 from read); the one-byte reads of http_connect are taken
\* together
H_Step ==
    /\ call.pc = "called"
    /\ hs.pc \in Sites
    /\ LET c == HsCallOn(hs, call.args, handshake_io)
           k == Min(Len(peer.inbox), c.count)
       IN IF c.op = "write"
          THEN \/ /\ peer' = [peer EXCEPT !.got = @ \o c.data]
                  /\ hs' = HsResume(hs, call.args.null = {}, handshake_io,
                                    c.count, c.count, c.data)
               \/ /\ peer' = peer
                  /\ hs' = HsResume(hs, call.args.null = {}, handshake_io,
                                    c.count, -1, c.data)
          ELSE IF hs.fn = "http"
          THEN LET head == http_read_head(hs, peer.inbox)
               IN /\ peer' = [peer EXCEPT !.inbox = Drop(@, head.len)]
                  /\ hs' = head.hs
          ELSE /\ peer' = [peer EXCEPT !.inbox = Drop(@, k)]
               /\ hs' = BufferCheck(
                            HsResume(hs, call.args.null = {}, handshake_io,
                                     c.count,
                                     IF k = 0 /\ handshake_io = "safe"
                                     THEN -1 ELSE k,
                                     Take(peer.inbox, k)),
                            call.args)
    /\ UNCHANGED <<rt, net, handshake_io, job, io, call, poolVars, sweepVars, obsVars>>

\* socks5_connect has written past the end of buf: the thread faults (the
\* stack protector, a smashed frame), or the bytes land in memory nothing
\* else uses and it goes on
H_Overflow ==
    /\ hs.pc = "overflow"
    /\ \/ hs' = HsGoto(hs, "auth_w")
       \/ hs' = HsGoto(hs, "fault")
    /\ UNCHANGED <<rt, net, handshake_io, job, io, peer, poolIdle>>

\* the handshake function has returned and connect_through_proxy returns
\* its result (or the thread has faulted and the program is gone)
H_Return ==
    /\ call.pc = "called"
    /\ hs.pc \in {"done", "fault"}
    /\ call' = IF hs.pc = "fault" THEN NoCall
               ELSE IF hs.ret = 0
               THEN [call EXCEPT !.pc = "returned", !.ret = 0,
                                 !.path = "tunnel"]
               ELSE DialFail(call, "handshake")
    /\ hs' = NoHs
    /\ peer' = NoPeer
    /\ UNCHANGED <<rt, net, handshake_io, job, io, poolVars, sweepVars, obsVars>>

\* the caller has the result; what it does with the socket is its own
D_Done ==
    /\ call.pc = "returned"
    /\ call' = NoCall
    /\ UNCHANGED <<rt, net, handshake_io, job, hs, io, peer,
                   poolVars, sweepVars, obsVars>>

InitHS ==
    /\ InitPool
    /\ InitJob
    /\ handshake_io \in {"safe", "bare"}

NextHS ==
    \/ D_Enter
    \/ D_Connect
    \/ H_Call
    \/ H_Step
    \/ HS_NullDeref
    \/ H_Overflow
    \/ H_Return
    \/ D_Done

SpecHS == InitHS /\ [][NextHS]_vars

(* ---------------------------------------------------------------------- *)
(* A sweep taken lock by lock and message by message                       *)
(* ---------------------------------------------------------------------- *)
\* the mutexes of proxy_validator_ctx
Locks == {"index_lock", "stats_lock", "log_lock"}

\* the mutexes thread w holds
Held(w) == {l \in Locks : ctx[l] = w}

\* pthread_mutex_lock(l) by thread w, which returns once no thread holds l
Lock(c, l, w) == [c EXCEPT ![l] = w]

\* an unlock that leaves the mutex locked
Unlock_keep(c, l) == c

\* pthread_mutex_unlock(l)
Unlock(c, l) == [c EXCEPT ![l] = 0]

\* the places where the worker calls pthread_mutex_lock, the mutex it asks
\* for there and where it is once it has it
LockAt ==
    [log_attempt |-> "log_lock", log_try |-> "log_lock",
     stats |-> "stats_lock", log_result |-> "log_lock"]
Locked ==
    [log_attempt |-> "log_attempt_1", log_try |-> "log_try_1",
     stats |-> "stats_1", log_result |-> "log_result_1"]

\* the places where a worker has written part of a console line and not
\* yet its end
MidLine == {"log_attempt_2", "log_result_2"}

\* one printf by thread w: the text, and whether w holds log_lock
Write(w, text) == [text |-> text, log_lock |-> ctx.log_lock = w]

\* the behaviours of a proxy server towards the attempts of one sweep
Nets ==
    {<<"ok", "hsfail", "hsfail">>, <<"hsfail", "ok", "hsfail">>,
     <<"hsfail", "connfail", "hsfail">>}

\* check_and_validate_proxies up to the joins, with its verbose argument
\* and a configured concurrency
SweepVerbose ==
    /\ mainpc = "idle"
    /\ proxy_list # NULL /\ proxy_count > 0
    /\ \E conf \in 1 .. MaxConc, verbose \in {0, 1} :
       \E created \in 0 .. ThreadCount(conf, proxy_count) :
         /\ ctx' = [NoCtx EXCEPT !.items = Walk(px, proxy_list, proxy_count),
                                 !.total = proxy_count,
                                 !.thread_count = created,
                                 !.verbose = verbose]
         /\ wk' = [w \in Workers |->
                     IF w <= created THEN [NoWorker EXCEPT !.pc = "start"]
                     ELSE NoWorker]
    /\ px' = ResetValidation(px, PoolSeq)
    /\ mainpc' = "join"
    /\ lastOp' = "begin"
    /\ ret' = 0
    /\ claimed' = NoObs
    /\ wrote' = NoObs
    /\ UNCHANGED <<proxy_list, proxy_tail, current_proxy, proxy_count,
                   xconnect>>
    /\ UNCHANGED ioVars

\* what a worker's step on its own locals leaves alone
workerIdle == <<poolVars, mainpc, ctx, obsVars, ioVars>>

\* the proxy worker w has claimed
Claimed(w) == ctx.items[wk[w].idx + 1]

\* the locals of the loop body are initialised; verbose decides whether
\* log_proxy_attempt is called
W_Begin(w) ==
    /\ wk[w].pc = "work"
    /\ wk' = [wk EXCEPT ![w] =
                 [@ EXCEPT !.pc = IF ctx.verbose = 1 THEN "log_attempt"
                                  ELSE "open",
                           !.i = 1, !.loc = NoLocals, !.msg = NoMsg]]
    /\ UNCHANGED workerIdle

\* pthread_mutex_lock on stats_lock or log_lock
W_Lock(w) ==
    /\ wk[w].pc \in DOMAIN LockAt
    /\ ctx[LockAt[wk[w].pc]] = 0
    /\ ctx' = Lock(ctx, LockAt[wk[w].pc], w)
    /\ wk' = [wk EXCEPT ![w].pc = Locked[wk[w].pc], ![w].msg = NoMsg]
    /\ UNCHANGED <<poolVars, mainpc, obsVars, ioVars>>

\* log_proxy_attempt: "Checking i/n host:port", then the end of the line
\* and the unlock
W_LogAttempt(w) ==
    \/ /\ wk[w].pc = "log_attempt_1"
       /\ wk' = [wk EXCEPT ![w].pc = "log_attempt_2",
                           ![w].msg = Write(w, "Checking")]
       /\ UNCHANGED workerIdle
    \/ /\ wk[w].pc = "log_attempt_2"
       /\ wk' = [wk EXCEPT ![w].pc = "open", ![w].msg = Write(w, "newline")]
       /\ ctx' = Unlock(ctx, "log_lock")
       /\ UNCHANGED <<poolVars, mainpc, obsVars, ioVars>>

\* open_proxy_socket for attempt i
W_Open(w) ==
    /\ wk[w].pc = "open"
    /\ \E rtt \in Rtts :
         wk' = [wk EXCEPT ![w] =
                  IF net[Claimed(w)][wk[w].i] = "connfail"
                  THEN [@ EXCEPT !.pc = "record", !.msg = NoMsg]
                  ELSE [@ EXCEPT !.pc = IF ctx.verbose = 1 THEN "log_try"
                                        ELSE "handshake",
                                 !.loc.connect_rtt_ms = rtt,
                                 !.msg = NoMsg]]
    /\ UNCHANGED workerIdle

\* "  -> Trying ... handshake" under log_lock
W_LogTry(w) ==
    /\ wk[w].pc = "log_try_1"
    /\ wk' = [wk EXCEPT ![w].pc = "handshake", ![w].msg = Write(w, "Trying")]
    /\ ctx' = Unlock(ctx, "log_lock")
    /\ UNCHANGED <<poolVars, mainpc, obsVars, ioVars>>

\* the type of the attempt worker w is at
AttemptType(w) == AttemptOrder(px[Claimed(w)].type)[wk[w].i]

\* worker w is in socks4_connect with a test host that is not a dotted
\* quad, so that it calls gethostbyname and copies the address out of the
\* hostent that function returns, which is static storage of the C
\* library, while another worker is in socks4_connect too
InGethostbyname(w) ==
    /\ wk[w].pc = "handshake"
    /\ AttemptType(w) = PROXY_SOCKS4
    /\ inet_pton(test_host) = <<>>
Racing(w) == InGethostbyname(w) /\ \E v \in Workers \ {w} : InGethostbyname(v)

\* what the attempt meets: the server's behaviour towards the request for
\* the test host; when the address was read in a race with another
\* gethostbyname the request may name any address, which a server that
\* grants the test host may refuse
Answers(w) ==
    IF Racing(w) /\ net[Claimed(w)][wk[w].i] = "ok"
    THEN {"ok", "hsfail"} ELSE {net[Claimed(w)][wk[w].i]}

\* perform_proxy_handshake and the close of the socket; a handshake
\* function that fails prints why with err_printf on all but two of its
\* ways out
W_Handshake(w) ==
    /\ wk[w].pc = "handshake"
    /\ \E answer \in Answers(w) :
       LET order == AttemptOrder(px[Claimed(w)].type) IN
       IF answer = "ok"
       THEN wk' = [wk EXCEPT ![w] =
                     [@ EXCEPT !.pc = "record", !.msg = NoMsg,
                               !.loc.detected = order[wk[w].i],
                               !.loc.keep_proxy = 1]]
       ELSE \E printed \in BOOLEAN :
              wk' = [wk EXCEPT ![w] =
                       [@ EXCEPT !.pc = IF wk[w].i + 1 > Len(order)
                                        THEN "record" ELSE "open",
                                 !.i = @ + 1,
                                 !.msg = IF printed
                                         THEN Write(w, "handshake error")
                                         ELSE NoMsg]]
    /\ UNCHANGED workerIdle

\* the outcome is written on the proxy
W_Record(w) ==
    /\ wk[w].pc = "record"
    /\ px' = [px EXCEPT ![Claimed(w)] = RecordOutcome(@, wk[w].loc)]
    /\ wrote' = [wrote EXCEPT ![Claimed(w)] = @ + 1]
    /\ wk' = [wk EXCEPT ![w].pc = "stats", ![w].msg = NoMsg]
    /\ UNCHANGED <<proxy_list, proxy_tail, current_proxy, proxy_count,
                   xconnect, mainpc, ctx, lastOp, ret, claimed, ioVars>>

\* the counters are updated and stats_lock is released
W_Stats(w) ==
    /\ wk[w].pc = "stats_1"
    /\ ctx' = Unlock(UpdateStats(ctx, wk[w].loc), "stats_lock")
    /\ wk' = [wk EXCEPT ![w].pc = "log_result", ![w].msg = NoMsg]
    /\ UNCHANGED <<poolVars, mainpc, obsVars, ioVars>>

\* log_proxy_success ("Proxy OK: ...", then the times and the end of the
\* line) or log_proxy_failure ("Proxy removed: ..." in one printf), and
\* back to the head of the loop
W_LogResult(w) ==
    \/ /\ wk[w].pc = "log_result_1"
       /\ wk[w].loc.keep_proxy = 1 /\ wk[w].loc.detected # PROXY_NONE
       /\ wk' = [wk EXCEPT ![w].pc = "log_result_2",
                           ![w].msg = Write(w, "Proxy OK")]
       /\ UNCHANGED workerIdle
    \/ /\ wk[w].pc = "log_result_1"
       /\ ~(wk[w].loc.keep_proxy = 1 /\ wk[w].loc.detected # PROXY_NONE)
       /\ wk' = [wk EXCEPT ![w] = [NoWorker EXCEPT
                                     !.pc = "start",
                                     !.msg = Write(w, "Proxy removed")]]
       /\ ctx' = Unlock(ctx, "log_lock")
       /\ UNCHANGED <<poolVars, mainpc, obsVars, ioVars>>
    \/ /\ wk[w].pc = "log_result_2"
       /\ wk' = [wk EXCEPT ![w] = [NoWorker EXCEPT
                                     !.pc = "start",
                                     !.msg = Write(w, "times")]]
       /\ ctx' = Unlock(ctx, "log_lock")
       /\ UNCHANGED <<poolVars, mainpc, obsVars, ioVars>>

\* the pool empty, no sweep running, the servers' behaviours fixed
InitLocks ==
    /\ InitPool
    /\ job = NoJob
    /\ hs = NoHs
    /\ io = NoIo
    /\ peer = NoPeer
    /\ call = NoCall
    /\ handshake_io = "safe"
    /\ rt = NoRt
    /\ net \in [Ids -> Nets]

\* proxy_validator_worker, lock by lock
WorkerLocks(w) ==
    \/ W_Fetch(w)
    \/ W_Claim(w)
    \/ W_Begin(w)
    \/ W_Lock(w)
    \/ W_LogAttempt(w)
    \/ W_Open(w)
    \/ W_LogTry(w)
    \/ W_Handshake(w)
    \/ W_Record(w)
    \/ W_Stats(w)
    \/ W_LogResult(w)

NextLocks ==
    \/ Load
    \/ SweepVerbose
    \/ FinishSweep
    \/ \E w \in Workers : WorkerLocks(w)

SpecLocks == InitLocks /\ [][NextLocks]_vars

(* ---------------------------------------------------------------------- *)
(* Proxy lines: parse_proxy_line and save_validated_proxies                *)
(* ---------------------------------------------------------------------- *)
\* strchr: the first position of c in s, 0 when there is none
strchr(s, c) ==
    IF \E i \in 1 .. Len(s) : s[i] = c
    THEN CHOOSE i \in 1 .. Len(s) :
            s[i] = c /\ \A j \in 1 .. i - 1 : s[j] # c
    ELSE 0

\* strrchr: the last position of c in s, 0 when there is none
strrchr(s, c) ==
    IF \E i \in 1 .. Len(s) : s[i] = c
    THEN CHOOSE i \in 1 .. Len(s) :
            s[i] = c /\ \A j \in i + 1 .. Len(s) : s[j] # c
    ELSE 0

\* strstr: the first position at which pat starts in s, 0 when nowhere
strstr(s, pat) ==
    LET at == {i \in 1 .. Len(s) - Len(pat) + 1 :
                  SubSeq(s, i, i + Len(pat) - 1) = pat}
    IN IF at = {} THEN 0 ELSE CHOOSE i \in at : \A j \in at : i <= j

isspace(c) == c \in (9 .. 13) \cup {32}

\* trim_whitespace: leading and trailing white space removed
trim_whitespace(s) ==
    LET inner == {i \in 1 .. Len(s) : ~isspace(s[i])}
    IN IF inner = {} THEN <<>>
       ELSE SubSeq(s, CHOOSE i \in inner : \A j \in inner : i <= j,
                      CHOOSE i \in inner : \A j \in inner : j <= i)

\* the C string in a buffer whose line ends were overwritten with NUL
CutAtLineEnd(s) ==
    LET ends == {i \in 1 .. Len(s) : s[i] \in {10, 13}}
    IN IF ends = {} THEN s
       ELSE Take(s, (CHOOSE i \in ends : \A j \in ends : i <= j) - 1)

tolower(c) == IF c \in 65 .. 90 THEN c + 32 ELSE c

\* the type a scheme names (x_strcasecmp), the default for any other
SchemeType(scheme, default_type) ==
    LET l == [i \in 1 .. Len(scheme) |-> tolower(scheme[i])] IN
    IF l = <<104, 116, 116, 112>> THEN PROXY_HTTP
    ELSE IF l = <<104, 116, 116, 112, 115>> THEN PROXY_HTTPS
    ELSE IF l = <<115, 111, 99, 107, 115, 52>> THEN PROXY_SOCKS4
    ELSE IF l = <<115, 111, 99, 107, 115, 53>> THEN PROXY_SOCKS5
    ELSE default_type

\* strtol(port_token, &endptr, 10) and the test on endptr: the value, or 0
\* when the token is not a number followed by nothing but white space
strtol(s) ==
    LET sign == s # <<>> /\ s[1] \in {43, 45}
        t == IF sign THEN Tail(s) ELSE s
        nondigit == {i \in 1 .. Len(t) : t[i] \notin 48 .. 57}
        n == IF nondigit = {} THEN Len(t)
             ELSE (CHOOSE i \in nondigit : \A j \in nondigit : i <= j) - 1
    IN IF n = 0 \/ \E i \in n + 1 .. Len(t) : ~isspace(t[i]) THEN 0
       ELSE IF sign /\ s[1] = 45 THEN 0 - Digits(t, 0) ELSE Digits(t, 0)

\* an IPv6 address in text form
ipv6_literal(s) ==
    /\ Cardinality({i \in 1 .. Len(s) : s[i] = 58}) >= 2
    /\ \A i \in 1 .. Len(s) :
          s[i] \in (48 .. 57) \cup (97 .. 102) \cup (65 .. 70) \cup {58}

\* the host names the resolver knows: "h"
KnownNames == {<<104>>}

\* getaddrinfo(host, port, hints): the family of the first address found
getaddrinfo(host, is_ipv6) ==
    IF ipv6_literal(host) THEN "AF_INET6"
    ELSE IF is_ipv6 THEN "fail"
    ELSE IF inet_pton(host) # <<>> \/ host \in KnownNames THEN "AF_INET"
    ELSE "fail"

\* no proxy: parse_proxy_line returns NULL
Rejected ==
    [ok |-> FALSE, host |-> <<>>, port |-> 0, username |-> <<>>,
     password |-> <<>>, type |-> PROXY_NONE,
     detected_type |-> PROXY_NONE, is_ipv6 |-> FALSE]

\* parse_proxy_line from the tokens on: the port is converted, the
\* credentials before the @ take precedence over those after the port,
\* the host is resolved. An absent string (NULL) is the empty sequence;
\* tok holds prefix_user, prefix_pass, suffix_user and suffix_pass.
ParseTokens(host_token, port_token, tok, is_ipv6, ptype) ==
    LET port == strtol(port_token)
        family == getaddrinfo(host_token, is_ipv6)
    IN IF host_token = <<>> \/ port_token = <<>> THEN Rejected
       ELSE IF port <= 0 \/ port > 65535 THEN Rejected
       ELSE IF family = "fail" THEN Rejected
       ELSE [ok |-> TRUE, host |-> host_token, port |-> port,
             username |-> IF tok.prefix_user # <<>> THEN tok.prefix_user
                          ELSE tok.suffix_user,
             password |-> IF tok.prefix_pass # <<>> THEN tok.prefix_pass
                          ELSE tok.suffix_pass,
             type |-> ptype, detected_type |-> PROXY_NONE,
             is_ipv6 |-> family = "AF_INET6"]

\* parse_proxy_line, the branch for "[host]:port[:user[:pass]]"
ParseBracketed(work, prefix_user, prefix_pass, ptype) ==
    LET closing == strchr(work, 93)
        host_token == trim_whitespace(SubSeq(work, 2, closing - 1))
        rest0 == trim_whitespace(Drop(work, closing))
        rest == IF rest0 # <<>> /\ rest0[1] = 58
                THEN trim_whitespace(Tail(rest0)) ELSE <<>>
        after_port == strchr(rest, 58)
        user0 == IF after_port > 0 THEN trim_whitespace(Drop(rest, after_port))
                 ELSE <<>>
        after_user == strchr(user0, 58)
        suffix_user == IF after_user > 0 THEN Take(user0, after_user - 1)
                       ELSE user0
        suffix_pass == IF after_user > 0
                       THEN trim_whitespace(Drop(user0, after_user))
                       ELSE <<>>
        port_token == trim_whitespace(IF after_port > 0
                                      THEN Take(rest, after_port - 1)
                                      ELSE rest)
    IN IF closing = 0 \/ rest = <<>> THEN Rejected
       ELSE ParseTokens(host_token, port_token,
                        [prefix_user |-> prefix_user,
                         prefix_pass |-> prefix_pass,
                         suffix_user |-> suffix_user,
                         suffix_pass |-> suffix_pass],
                        TRUE, ptype)

\* the text after the k-th colon of s, s itself for k = 0
RECURSIVE AfterColons(_, _)
AfterColons(s, k) ==
    IF k = 0 THEN s ELSE AfterColons(Drop(s, strchr(s, 58)), k - 1)

\* the number of colons in s
Colons(s) == Cardinality({i \in 1 .. Len(s) : s[i] = 58})

\* parse_proxy_line, the branch for "host:port[:user[:pass]]": the text
\* is cut at its first three colons into at most four parts; a fourth
\* colon is put back into the last part unless nothing follows it
ParsePlain(work, prefix_user, prefix_pass, ptype) ==
    LET part_count == Min(Colons(work) + 1, 4)
        Part(k) == LET t == AfterColons(work, k - 1)
                       c == strchr(t, 58)
                   IN IF c = 0 THEN t ELSE Take(t, c - 1)
        last == AfterColons(work, 3)
        cut == strchr(last, 58)
        tmp == trim_whitespace(Drop(last, cut))
        part4 == IF cut = 0 THEN last
                 ELSE IF tmp = <<>> THEN Take(last, cut - 1)
                 ELSE Take(last, cut - 1) \o <<58>> \o tmp
    IN IF part_count < 2 THEN Rejected
       ELSE ParseTokens(trim_whitespace(Part(1)), trim_whitespace(Part(2)),
                        [prefix_user |-> prefix_user,
                         prefix_pass |-> prefix_pass,
                         suffix_user |-> IF part_count >= 3
                                         THEN trim_whitespace(Part(3))
                                         ELSE <<>>,
                         suffix_pass |-> IF part_count >= 4
                                         THEN trim_whitespace(part4)
                                         ELSE <<>>],
                        FALSE, ptype)

\* parse_proxy_line(line, default_type)
parse_proxy_line(line, default_type) ==
    LET work0 == trim_whitespace(CutAtLineEnd(line))
        wlen == Len(work0)
        work1 == IF wlen > 2 /\ work0[1] = 91 /\ work0[wlen] = 93
                    /\ strchr(Tail(work0), 64) > 0
                 THEN trim_whitespace(SubSeq(work0, 2, wlen - 1))
                 ELSE work0
        scheme_end == strstr(work1, <<58, 47, 47>>)
        ptype == IF scheme_end > 0
                 THEN SchemeType(Take(work1, scheme_end - 1), default_type)
                 ELSE default_type
        work2 == IF scheme_end > 0
                 THEN trim_whitespace(Drop(work1, scheme_end + 2))
                 ELSE work1
        at_sign == strrchr(work2, 64)
        user_pass == IF at_sign > 0
                     THEN trim_whitespace(Take(work2, at_sign - 1))
                     ELSE <<>>
        work == IF at_sign > 0 THEN trim_whitespace(Drop(work2, at_sign))
                ELSE trim_whitespace(work2)
        pass_sep == strchr(user_pass, 58)
        prefix_user == IF pass_sep > 0
                       THEN trim_whitespace(Take(user_pass, pass_sep - 1))
                       ELSE user_pass
        prefix_pass == IF pass_sep > 0
                       THEN trim_whitespace(Drop(user_pass, pass_sep))
                       ELSE <<>>
    IN IF line = <<>> \/ work0 = <<>> \/ work0[1] = 35 THEN Rejected
       ELSE IF work1 = <<>> \/ work = <<>> THEN Rejected
       ELSE IF work[1] = 91
       THEN ParseBracketed(work, prefix_user, prefix_pass, ptype)
       ELSE ParsePlain(work, prefix_user, prefix_pass, ptype)

\* the scheme save_validated_proxies writes for a type
Scheme(t) ==
    IF t = PROXY_HTTP THEN <<104, 116, 116, 112, 58, 47, 47>>
    ELSE IF t = PROXY_HTTPS THEN <<104, 116, 116, 112, 115, 58, 47, 47>>
    ELSE IF t = PROXY_SOCKS4 THEN <<115, 111, 99, 107, 115, 52, 58, 47, 47>>
    ELSE IF t = PROXY_SOCKS5 THEN <<115, 111, 99, 107, 115, 53, 58, 47, 47>>
    ELSE <<>>

\* the line written with the scheme taken from detected_type
SavedLine_detected(p) ==
    IF p.username # <<>> /\ p.password # <<>>
    THEN Scheme(p.detected_type) \o p.username \o <<58>> \o p.password
         \o <<64>> \o p.host \o <<58>> \o Dec(p.port) \o <<10>>
    ELSE Scheme(p.detected_type) \o p.host \o <<58>> \o Dec(p.port)
         \o <<10>>

\* the line save_validated_proxies writes for proxy p:
\* "%s%s:%s@%s:%d\n" with both credentials, "%s%s:%d\n" otherwise
SavedLine(p) ==
    IF p.username # <<>> /\ p.password # <<>>
    THEN Scheme(p.type) \o p.username \o <<58>> \o p.password \o <<64>>
         \o p.host \o <<58>> \o Dec(p.port) \o <<10>>
    ELSE Scheme(p.type) \o p.host \o <<58>> \o Dec(p.port) \o <<10>>

\* lines of a proxy file:
\*   h:80
\*   1.2.3.4:8080
\*   [::1]:80
\*   u@h:80
\*   u:p@h:80
\*   h:80:u:p
\*   h:80:u
\*   socks5://h:80
\*   HTTP://u:p@h:80
\*   [::1]:80:u:p
\*    socks4://u:p:q@1.2.3.4:1080 \r\n
\*   h:80:u:p:q
\*   https://h:443\n
\*   [u:p@h:80]
\*   ftp://h:80
\*   # h:80
\*   h
\*   h:0
\*   h:http
\*   [::1]
\*   x:80
\*   h:65536
\*   
\*   :p@h:80
\*   h:80::p
\*    u : p @h:80
\*   h:80: :p
\*   u@h:80:v:p
SampleLines ==
    {<<104, 58, 56, 48>>,
     <<49, 46, 50, 46, 51, 46, 52, 58, 56, 48, 56, 48>>,
     <<91, 58, 58, 49, 93, 58, 56, 48>>,
     <<117, 64, 104, 58, 56, 48>>,
     <<117, 58, 112, 64, 104, 58, 56, 48>>,
     <<104, 58, 56, 48, 58, 117, 58, 112>>,
     <<104, 58, 56, 48, 58, 117>>,
     <<115, 111, 99, 107, 115, 53, 58, 47, 47, 104, 58, 56, 48>>,
     <<72, 84, 84, 80, 58, 47, 47, 117, 58, 112, 64, 104, 58, 56, 48>>,
     <<91, 58, 58, 49, 93, 58, 56, 48, 58, 117, 58, 112>>,
     <<32, 115, 111, 99, 107, 115, 52, 58, 47, 47, 117, 58, 112, 58, 113, 64, 49, 46, 50, 46, 51, 46, 52, 58, 49, 48, 56, 48, 32, 13, 10>>,
     <<104, 58, 56, 48, 58, 117, 58, 112, 58, 113>>,
     <<104, 116, 116, 112, 115, 58, 47, 47, 104, 58, 52, 52, 51, 10>>,
     <<91, 117, 58, 112, 64, 104, 58, 56, 48, 93>>,
     <<102, 116, 112, 58, 47, 47, 104, 58, 56, 48>>,
     <<35, 32, 104, 58, 56, 48>>,
     <<104>>,
     <<104, 58, 48>>,
     <<104, 58, 104, 116, 116, 112>>,
     <<91, 58, 58, 49, 93>>,
     <<120, 58, 56, 48>>,
     <<104, 58, 54, 53, 53, 51, 54>>,
     <<>>,
     <<58, 112, 64, 104, 58, 56, 48>>,
     <<104, 58, 56, 48, 58, 58, 112>>,
     <<32, 117, 32, 58, 32, 112, 32, 64, 104, 58, 56, 48>>,
     <<104, 58, 56, 48, 58, 32, 58, 112>>,
     <<117, 64, 104, 58, 56, 48, 58, 118, 58, 112>>}

\* what the other variables of a line's round trip are
lineIdle ==
    <<poolVars, sweepVars, obsVars, net, handshake_io, job, hs, io, peer,
      call>>

\* the size of the line buffer of load_proxies and parse_proxy_line
MAX_PROXY_LINE == 512

\* fgets(line, size, fp) on a stream holding the bytes text: at most size - 1
\* bytes, up to and including the first newline; the other bytes stay in the
\* stream for the next call
fgets(text, size) ==
    LET nl == strchr(text, 10)
        n == IF nl > 0 /\ nl <= size - 1 THEN nl
             ELSE IF Len(text) <= size - 1 THEN Len(text)
             ELSE size - 1
    IN [line |-> Take(text, n), rest |-> Drop(text, n)]

\* n bytes c
Fill(n, c) == [i \in 1 .. n |-> c]

\* physical lines longer than the buffer:
\*   h:80, 507 blanks, h:80\n
\*   #, 510 times x, h:80\n
\*   h:80, 507 blanks, \n
LongLines ==
    {<<104, 58, 56, 48>> \o Fill(MAX_PROXY_LINE - 5, 32)
        \o <<104, 58, 56, 48, 10>>,
     <<35>> \o Fill(MAX_PROXY_LINE - 2, 120) \o <<104, 58, 56, 48, 10>>,
     <<104, 58, 56, 48>> \o Fill(MAX_PROXY_LINE - 5, 32) \o <<10>>}

\* load_proxies reads the first part of a physical line of the file with
\* fgets and hands it to parse_proxy_line
P_Parse ==
    /\ rt.pc = "idle"
    /\ \E text \in SampleLines \cup LongLines, d \in proxy_type :
         LET got == fgets(text, MAX_PROXY_LINE)
             p == parse_proxy_line(got.line, d)
         IN rt' = [NoRt EXCEPT !.pc = "parsed", !.default_type = d,
                               !.line = got.line, !.file = got.rest,
                               !.nth = 1, !.p = p,
                               !.count = IF p.ok THEN 1 ELSE 0]
    /\ UNCHANGED lineIdle

\* the next turn of the loop of load_proxies: fgets reads on where the last
\* call stopped, and what it returns is handed to parse_proxy_line
P_More ==
    /\ rt.pc = "parsed"
    /\ rt.file # <<>>
    /\ LET got == fgets(rt.file, MAX_PROXY_LINE)
           p == parse_proxy_line(got.line, rt.default_type)
       IN rt' = [rt EXCEPT !.line = got.line, !.file = got.rest,
                           !.nth = @ + 1, !.p = p,
                           !.count = IF p.ok THEN @ + 1 ELSE @]
    /\ UNCHANGED lineIdle

\* a sweep keeps the proxy: a worker's attempt with one of the types of
\* its attempt order succeeds and the worker records the outcome (a proxy
\* whose attempts all fail is removed from the pool and is never saved)
P_Validate ==
    /\ rt.pc = "parsed"
    /\ rt.p.ok
    /\ \E i \in 1..Len(AttemptOrder(rt.p.type)) :
         LET cred == rt.p.username # <<>> /\ rt.p.password # <<>>
             w == [keep_proxy |-> 1, detected |-> AttemptOrder(rt.p.type)[i],
                   connect_rtt_ms |-> 1]
             r == RecordOutcome(ParsedRec(rt.p.type, cred), w)
         IN rt' = [rt EXCEPT !.pc = "validated", !.p.type = r.type,
                             !.p.detected_type = r.detected_type]
    /\ UNCHANGED lineIdle

\* save_validated_proxies writes the proxy, validated or not
P_Save ==
    /\ rt.pc \in {"parsed", "validated"}
    /\ rt.p.ok
    /\ rt' = [rt EXCEPT !.pc = "saved", !.out = SavedLine(rt.p)]
    /\ UNCHANGED lineIdle

\* the saved file is loaded with the same default type
P_Reparse ==
    /\ rt.pc = "saved"
    /\ rt' = [rt EXCEPT !.pc = "reparsed",
                        !.q = parse_proxy_line(rt.out, rt.default_type)]
    /\ UNCHANGED lineIdle

\* on to the next line
P_Next ==
    /\ \/ rt.pc = "reparsed"
       \/ rt.pc = "parsed" /\ ~rt.p.ok /\ rt.file = <<>>
    /\ rt' = NoRt
    /\ UNCHANGED lineIdle

InitSave ==
    /\ InitPool
    /\ InitJob
    /\ handshake_io = "safe"

NextSave == P_Parse \/ P_More \/ P_Validate \/ P_Save \/ P_Reparse \/ P_Next

SpecSave == InitSave /\ [][NextSave]_vars

(* ---------------------------------------------------------------------- *)
(* Validator atomicity, rotation, sweep result, work distribution          *)
(* ---------------------------------------------------------------------- *)
InPool(p) == p \in Range(PoolSeq)

\* C1: when check_and_validate_proxies has returned from a sweep over a
\* non-empty pool, every proxy still in the pool has validated = 1,
\* is_active = 1 and detected_type # PROXY_NONE, whatever the number of
\* workers, their interleaving and the per-proxy outcomes.
C1_ValidatorAtomicity ==
    lastOp = "sweep" =>
        \A p \in Ids : InPool(p) =>
            /\ px[p].validated = 1
            /\ px[p].is_active = 1
            /\ px[p].detected_type # PROXY_NONE

\* a sweep returned that removed the first proxy and kept the second, whose
\* type was detected at the second attempt
C1_Witness ==
    /\ lastOp = "sweep"
    /\ PoolSeq = <<2>>
    /\ px[2].detected_type = PROXY_SOCKS4

\* C2: next_proxy never returns a proxy that is not validated and active,
\* in every reachable pool state (also loaded, not yet validated), and it
\* returns NULL when the pool holds no active entry.
C2_NextOnlyValidatedActive ==
    lastOp = "next" =>
        /\ ret # NULL => px[ret].validated = 1 /\ px[ret].is_active = 1
        /\ (\A p \in Ids : InPool(p) => px[p].is_active = 0) => ret = NULL

\* the returns of n consecutive next_proxy calls from heap h
RECURSIVE NextCalls(_, _)
NextCalls(h, n) ==
    IF n = 0 THEN <<>>
    ELSE <<next_proxy(h)>> \o NextCalls([h EXCEPT !.cur = next_cursor(h)], n - 1)

Succeeded(p) == px[p].validated = 1
Working == SelectSeq(ctx.items, Succeeded)

C5_ExactlyOnce ==
    mainpc = "join" =>
        /\ \A i \in Ids : claimed[i] <= 1 /\ wrote[i] <= 1
        /\ \A v, w \in Workers :
              (v # w /\ wk[v].pc = "work" /\ wk[w].pc = "work")
                  => ctx.items[wk[v].idx + 1] # ctx.items[wk[w].idx + 1]
        /\ (AllJoined /\ ctx.thread_count >= 1) =>
              \A i \in 1 .. ctx.total :
                  claimed[i] = 1 /\ wrote[ctx.items[i]] = 1

\* two workers have finished a sweep over two proxies
C5_Witness ==
    /\ mainpc = "join"
    /\ AllJoined
    /\ ctx.thread_count = 2
    /\ ctx.total = 2
    /\ \A i \in 1 .. 2 : claimed[i] = 1

(* ---------------------------------------------------------------------- *)
(* Time per proxy, readiness waits, framed transfers, transient errors     *)
(* ---------------------------------------------------------------------- *)
\* C6: when a worker is through with a proxy, it has spent on it, over all
\* connect attempts and all handshake reads and writes, at most the connect
\* timeout plus three times the handshake timeout (the handshake timeout
\* taken as the 10 s the call sites pass, the largest of its readings).
C6_PerProxyTimeBound ==
    job.pc = "done" =>
        job.elapsed_ms <= job.timeout_ms + 3 * (1000 * timeout_sec)

\* C7: whenever a handshake function is about to read from or write to the
\* socket, select has reported the socket ready since the last transfer.
C7_TransferAfterSelect == io.pc = "xfer" => io.ready

\* C8: safe_read_with_timeout returns the count asked for only when the
\* buffer holds exactly the next count bytes of the proxy's stream, in
\* order, and no more were consumed (so never when the proxy closed before
\* that many arrived); safe_write_with_timeout returns the count only when
\* the proxy received exactly the buffer; and the handshake function that
\* gets any other value from either returns -1.
C8_ExactTransfer ==
    [][ /\ (io'.pc = "ret" /\ io'.safe /\ io'.op = "read"
              /\ io'.ret = io'.count)
             => /\ Len(io'.src) >= io'.count
                /\ io'.data = Take(io'.src, io'.count)
                /\ peer'.inbox = Drop(io'.src, io'.count)
        /\ (io'.pc = "ret" /\ io'.safe /\ io'.op = "write"
              /\ io'.ret = io'.count)
             => peer'.got = io'.src \o io'.data
        /\ (io.pc = "ret" /\ io.safe /\ io.ret # io.count)
             => hs'.pc = "done" /\ hs'.ret = -1
      ]_vars

\* safe_read_with_timeout returned 8 for the SOCKS4 reply, which arrived in
\* more than one piece
C8_Witness ==
    /\ io.pc = "ret"
    /\ io.safe
    /\ io.op = "read"
    /\ io.count = 8
    /\ io.ret = 8
    /\ io.split

\* C9: safe_read_with_timeout and safe_write_with_timeout never fail
\* because of EAGAIN, EWOULDBLOCK or EINTR, whether select or the transfer
\* reported it.
C9_TransientErrorsRetried ==
    (io.pc = "ret" /\ io.safe /\ io.ret = -1)
        => io.errno \notin {EAGAIN, EWOULDBLOCK, EINTR}

\* C10: a call of safe_read_with_timeout or safe_write_with_timeout with
\* timeout T has returned within T.
C10_CallWithinTimeout ==
    (io.pc = "ret" /\ io.safe) => io.t <= 1000 * io.timeout_sec

(* ---------------------------------------------------------------------- *)
(* Configured timeouts, attempt order, the three handshakes                *)
(* ---------------------------------------------------------------------- *)
\* C11: the timeout a handshake read or write waits with is the configured
\* one: in a sweep, no call of safe_read_with_timeout or
\* safe_write_with_timeout is given more than the sweep's timeout_ms.
C11_ConfiguredTimeoutApplied ==
    (io.safe /\ io.pc # "idle") => 1000 * io.timeout_sec <= job.timeout_ms

C13_AutoDetectTriesAll ==
    (job.pc = "done" /\ job.type = PROXY_NONE /\ job.keep_proxy = 0)
        => job.i > 3

\* C14: when the handshake of the type declared for a proxy has failed,
\* the worker goes on to another attempt (it falls back to auto-detection)
\* rather than leave the loop with the proxy failed.
C14_DeclaredTypeFallsBack ==
    [][ (job.pc = "handshake" /\ hs.pc = "done" /\ hs.ret = -1
           /\ job.type # PROXY_NONE /\ job.order[job.i] = job.type)
          => (job'.pc = "open" /\ job'.i <= Len(job'.order))
      ]_vars

\* C15: socks5_connect moves GREET -> (AUTH ->) REQUEST -> READ_BND -> DONE
\* and in no other way. On the two bytes of the greeting reply it fails if
\* byte 0 is not 5, goes to AUTH if byte 1 is 2, to REQUEST if byte 1 is 0,
\* and fails for every other method; it leaves AUTH for REQUEST only on a
\* reply whose byte 1 is 0; once it has failed, nothing more is written to
\* that connection.
C15_Socks5StateMachine ==
    [][ hs.fn = "socks5" =>
          /\ hs'.pc # hs.pc =>
                <<hs.pc, hs'.pc>> \in
                    { <<"greet_w", "greet_r">>, <<"greet_r", "auth_w">>,
                      <<"greet_r", "req_w">>, <<"auth_w", "auth_r">>,
                      <<"auth_r", "req_w">>, <<"req_w", "req_r">>,
                      <<"req_r", "alen_r">>, <<"req_r", "skip_r">>,
                      <<"alen_r", "skip_r">> }
                    \cup {<<pc, "done">> : pc \in Sites}
                    \cup {<<"done", "none">>}
          /\ (hs.pc = "greet_r" /\ io.pc = "ret" /\ io.ret = 2) =>
                IF io.data[1] # 5 THEN hs'.pc = "done" /\ hs'.ret = -1
                ELSE IF io.data[2] = 2 THEN hs'.pc = "auth_w"
                ELSE IF io.data[2] = 0 THEN hs'.pc = "req_w"
                ELSE hs'.pc = "done" /\ hs'.ret = -1
          /\ (hs.pc = "auth_r" /\ hs'.pc = "req_w") =>
                (io.ret = 2 /\ io.data[2] = 0)
          /\ (hs.pc = "done" /\ hs.ret = -1) =>
                (hs'.pc = "none" /\ peer'.got = <<>>)
      ]_vars

\* C16: for a destination name of 1..255 bytes and a port, socks5_connect
\* without credentials has written exactly 05 01 00 when it reads the method
\* selection and, the selection being 05 00, exactly that and
\* 05 01 00 03 len(host) host port_hi port_lo from then on (the address type
\* is 3 whatever the name looks like); with credentials (a user name and a
\* password of 1..255 bytes) it has written 05 02 00 02 and, the selection
\* being 05 02, 01 ulen user plen pass and then the same request; and it
\* has written nothing else (a message is written whole or not at all).
C16_Socks5Bytes ==
    (call.pc = "called" /\ hs.fn = "socks5") =>
        LET a == call.args
            auth == a.null = {} /\ a.user # <<>> /\ a.pass # <<>>
            greeting == IF auth THEN <<5, 2, 0, 2>> ELSE <<5, 1, 0>>
            message == <<1, Len(a.user)>> \o a.user
                       \o <<Len(a.pass)>> \o a.pass
            request == <<5, 1, 0, 3, Len(a.host)>> \o a.host
                       \o <<a.port \div 256, a.port % 256>>
            sel == IF Len(call.reply) >= 2 THEN SubSeq(call.reply, 1, 2)
                   ELSE <<>>
            requested == hs.pc \in {"req_r", "alen_r", "skip_r"}
                         \/ (hs.pc = "done" /\ hs.ret = 0)
        IN /\ hs.pc = "greet_r" => peer.got = greeting
           /\ (~auth /\ sel = <<5, 0>> /\ hs.pc # "greet_w")
                => /\ peer.got \in {<<>>, greeting, greeting \o request}
                   /\ requested => peer.got = greeting \o request
           /\ (auth /\ Len(a.user) <= 255 /\ Len(a.pass) <= 255
                 /\ sel = <<5, 2>> /\ hs.pc # "greet_w")
                => /\ peer.got \in {<<>>, greeting, greeting \o message,
                                    greeting \o message \o request}
                   /\ hs.pc = "auth_r" => peer.got = greeting \o message
                   /\ requested
                        => peer.got = greeting \o message \o request

\* socks5_connect returned success after authenticating with a user name
\* of 255 and a password of 254 bytes for a destination name of 255 bytes
C16_Witness ==
    /\ call.pc = "called"
    /\ hs.fn = "socks5" /\ hs.pc = "done" /\ hs.ret = 0
    /\ Len(call.args.user) = 255
    /\ Len(call.args.host) = 255
    /\ Len(call.args.pass) = 254
    /\ Len(peer.got) = 4 + (3 + 255 + 254) + (7 + 255)

\* C17: when socks5_connect returns success it has consumed the server's
\* whole reply to CONNECT and nothing is left unread on the socket: after
\* the 4 fixed bytes, 4 + 2 bytes for address type 1, 1 + len + 2 for
\* address type 3 with every len in 0..255, 16 + 2 for address type 4.
C17_Socks5ReplyConsumed ==
    (call.pc = "called" /\ hs.fn = "socks5" /\ hs.pc = "done" /\ hs.ret = 0)
        => LET selection == IF call.reply[2] = 2 THEN 4 ELSE 2
               rep == Drop(call.reply, selection)
               consumed == Len(rep) - Len(peer.inbox)
           IN /\ rep[4] = 1 => consumed = 4 + (4 + 2)
              /\ rep[4] = 3 => consumed = 4 + (1 + rep[5] + 2)
              /\ rep[4] = 4 => consumed = 4 + (16 + 2)
              /\ rep[4] \in {1, 3, 4} => peer.inbox = <<>>

\* C18: socks5_connect offers user name and password authentication only
\* when the user name and the password are each 1..255 bytes long (empty or
\* longer ones make it offer no authentication); the ulen and plen bytes of
\* the message it sends are the true lengths; and the message fits the 512
\* bytes of the buffer it is built in.
C18_AuthEligibility ==
    (call.pc = "called" /\ hs.fn = "socks5") =>
        LET a == call.args
            eligible == /\ a.null = {}
                        /\ Len(a.user) \in 1 .. 255
                        /\ Len(a.pass) \in 1 .. 255
            g == IF Len(peer.got) >= 2 /\ peer.got[2] = 2 THEN 4 ELSE 3
        IN /\ hs.pc = "greet_r" =>
                peer.got = IF eligible THEN <<5, 2, 0, 2>> ELSE <<5, 1, 0>>
           /\ hs.pc = "auth_r" =>
                /\ peer.got[g + 2] = Len(a.user)
                /\ peer.got[g + 2 + Len(a.user) + 1] = Len(a.pass)
           /\ hs.pc \in {"auth_w", "overflow"} =>
                3 + Len(a.user) + Len(a.pass) <= 512

C20_HttpStatus200 ==
    (call.pc = "called" /\ hs.fn = "http" /\ hs.pc = "done"
       /\ peer.got # <<>> /\ peer.inbox = <<>>
       /\ Len(call.reply) >= 4
       /\ SubSeq(call.reply, Len(call.reply) - 3, Len(call.reply))
            = <<13, 10, 13, 10>>)
        => LET r == call.reply IN
           hs.ret = 0 <=> /\ Len(r) >= 13
                          /\ SubSeq(r, 1, 7) = <<72, 84, 84, 80, 47, 49, 46>>
                          /\ r[8] \in 48 .. 57
                          /\ r[9] = 32
                          /\ SubSeq(r, 10, 12) = <<50, 48, 48>>
                          /\ r[13] \in {32, 13}

(* ---------------------------------------------------------------------- *)
(* The response head, sockets, locks, determinism, termination             *)
(* ---------------------------------------------------------------------- *)
\* C21: when http_connect returns success it has consumed from the socket
\* exactly the response head up to and including the first CR LF CR LF:
\* the terminator is among the bytes it consumed (also for a head longer
\* than its buffer) and no byte after the terminator is.
C21_HttpHeadConsumed ==
    (call.pc = "called" /\ hs.fn = "http" /\ hs.pc = "done" /\ hs.ret = 0)
        => LET r == call.reply
               consumed == Len(r) - Len(peer.inbox)
               ends == {k \in 4 .. Len(r) :
                          SubSeq(r, k - 3, k) = <<13, 10, 13, 10>>}
           IN /\ ends # {}
              /\ consumed \in ends
              /\ \A k \in ends : consumed <= k

\* C22 as claimed: when connect_through_proxy has returned an error
\* (connect error, connect timeout, SO_ERROR, unsupported type, handshake
\* failure) it has closed the socket.
C22_DialerClosesOnFailure ==
    (call.pc = "returned" /\ call.ret # 0) => call.sock = "closed"

\* C22: connect_through_proxy closes the socket on no path: when it has
\* returned, with an error from any of its failure paths or with success,
\* the caller's socket is still open.
C22_DialerLeavesSocketOpen ==
    call.pc = "returned" => call.sock = "open"

\* connect_through_proxy has returned the failure of http_connect, whose
\* request the server answered with 407
C22_Witness ==
    /\ call.pc = "returned"
    /\ call.ret = -1
    /\ call.path = "handshake"
    /\ call.type = PROXY_HTTPS
    /\ call.reply = Head1(HTTP1 \o <<49, 32, 52, 48, 55, 32, 65>>)

\* C23: a validator worker has at most one test socket open; it has one
\* exactly while it runs a handshake; it has none when it is about to open
\* the socket of its next attempt, when it is through with the proxy
\* (whichever way open_proxy_socket or the handshake ended) and between
\* proxies, so none is open when the workers have exited.
C23_ValidatorSocketsClosed ==
    /\ job.fds \in {0, 1}
    /\ job.pc = "handshake" => job.fds = 1
    /\ job.pc \in {"idle", "open", "done"} => job.fds = 0

\* the worker is through with an auto-detect proxy after three sockets:
\* two handshakes failed, the third connect ran into the deadline
C23_Witness ==
    /\ job.pc = "done"
    /\ job.i = 3
    /\ job.keep_proxy = 0
    /\ job.elapsed_ms >= job.timeout_ms
    /\ job.fds = 0

\* the list structure of the pool: head, tail, count, the links and which
\* records are allocated
ListStructure ==
    <<proxy_list, proxy_tail, proxy_count,
      [p \in Ids |-> <<px[p].live, px[p].next, px[p].parent>>]>>

\* the workers that have been started and have not returned
LiveWorkers == {w \in Workers : wk[w].pc \notin {"none", "exit"}}

\* C24: the list structure of the pool changes only in steps of the
\* controlling thread taken while no validator worker is live; the removal
\* of the proxies that did not validate is such a step, taken after every
\* started worker has exited. No step of a worker changes it.
C24_ListMutatedOnlyWithoutWorkers ==
    [][ /\ ListStructure' # ListStructure => LiveWorkers = {}
        /\ (mainpc = "join" /\ mainpc' = "idle") =>
              \A w \in Workers : wk[w].pc \in {"none", "exit"}
        /\ (\E w \in Workers : wk'[w] # wk[w] /\ wk[w].pc # "none"
                                 /\ mainpc' = "join")
              => ListStructure' = ListStructure
      ]_vars

\* after a sweep over two proxies in which a worker validated the first,
\* the controlling thread has removed the second
C24_Witness ==
    /\ lastOp = "sweep"
    /\ mainpc = "idle"
    /\ PoolSeq = <<1>>
    /\ px[1].validated = 1
    /\ ~px[2].live
    /\ proxy_tail = 1

\* C25: a worker holds at most one of index_lock, stats_lock and log_lock;
\* it holds none while it connects or runs a handshake, and none while it
\* waits for a mutex; so while workers are live one of them can take a
\* step: the workers cannot deadlock.
C25_LockDiscipline ==
    /\ \A w \in Workers :
          /\ Cardinality(Held(w)) <= 1
          /\ wk[w].pc \in {"open", "handshake"} => Held(w) = {}
          /\ wk[w].pc \in DOMAIN LockAt \cup {"start"} => Held(w) = {}
    /\ LiveWorkers # {} => ENABLED (\E w \in Workers : WorkerLocks(w))

\* worker 1 holds stats_lock and worker 2 is waiting for it
C25_Witness ==
    /\ wk[1].pc = "stats_1"
    /\ ctx.stats_lock = 1
    /\ wk[2].pc = "stats"
    /\ Held(2) = {}

\* C26: during a sweep every console message written on a worker thread,
\* the error messages of the handshake functions included, is written
\* while that worker holds log_lock, and no worker writes while another
\* has written part of a line and not yet its end.
C26_ConsoleUnderLogLock ==
    [][ \A w \in Workers :
          (wk'[w] # wk[w] /\ wk'[w].msg.text # "") =>
              /\ wk'[w].msg.log_lock
              /\ \A v \in Workers \ {w} : wk[v].pc \notin MidLine
      ]_vars

\* the snapshot entries with the given detected type among the validated
Detected(types) ==
    {p \in Range(ctx.items) :
        px[p].validated = 1 /\ px[p].detected_type \in types}

\* C27: with the behaviour of every proxy server fixed, the result of a
\* sweep does not depend on how many workers run or on how they
\* interleave: whichever worker takes a proxy, in whatever order, the
\* outcome it arrives at is the one the attempt loop gives for the proxy's
\* type and its server's behaviour; that outcome is what it writes on the
\* proxy; when the workers (at least one) have exited every proxy bears
\* its outcome and the counters count the proxies by outcome; and the pool
\* returned is the snapshot without the proxies that did not validate.
C27_ResultIndependentOfWorkers ==
    [][ /\ \A w \in Workers :
             LET q == ctx.items[wk[w].idx + 1]
                 o == AttemptLoop(AttemptOrder(px[q].type), net[q], 7, 1,
                                  NoLocals)
             IN /\ wk[w].pc = "record" =>
                      /\ wk[w].loc.keep_proxy = o.keep_proxy
                      /\ wk[w].loc.detected = o.detected
                /\ (wk[w].pc = "record" /\ wk'[w].pc # "record") =>
                      /\ px'[q].validated = o.keep_proxy
                      /\ px'[q].is_active = o.keep_proxy
                      /\ px'[q].detected_type = o.detected
                      /\ o.keep_proxy = 1 => px'[q].type = o.detected
                      /\ \A r \in Ids \ {q} : px'[r] = px[r]
        /\ (mainpc = "join" /\ AllJoined /\ ctx.thread_count >= 1) =>
              /\ \A q \in Range(ctx.items) : wrote[q] = 1
              /\ ctx.working = Cardinality(Detected(proxy_type))
              /\ ctx.removed = ctx.total - ctx.working
              /\ ctx.socks5_count = Cardinality(Detected({PROXY_SOCKS5}))
              /\ ctx.socks4_count = Cardinality(Detected({PROXY_SOCKS4}))
              /\ ctx.http_count =
                    Cardinality(Detected({PROXY_HTTP, PROXY_HTTPS}))
        /\ (mainpc = "join" /\ mainpc' = "idle") =>
              /\ PoolSeq' = SelectSeq(ctx.items, LAMBDA q : px[q].validated = 1)
              /\ \A q \in Range(PoolSeq') :
                    /\ px'[q].detected_type = px[q].detected_type
                    /\ px'[q].type = px[q].type
      ]_vars

\* C28: every attempt a worker starts comes to its end, whatever ready,
\* EAGAIN, EINTR, partial-transfer and timeout events its waits, reads and
\* writes meet: no worker stays in a handshake forever, so every worker
\* exits and the sweep returns.
C28_SweepTerminates ==
    (job.pc = "handshake") ~> (job.pc \in {"open", "done", "fault"})

(* ---------------------------------------------------------------------- *)
(* Loading, clearing, saving                                               *)
(* ---------------------------------------------------------------------- *)
\* the entries of the pool in list order, without their links
PoolRecs ==
    [i \in 1 .. Len(PoolSeq) |->
        [px[PoolSeq[i]] EXCEPT !.next = NULL, !.parent = NULL]]

\* C29: once load_proxies has opened its file, the pool is exactly the
\* parsed lines of the file in file order, with no entry of the previous
\* pool, the cursor unset and the count the number of lines parsed: the
\* pool after the call is the one the same file gives on an empty pool,
\* whatever the pool was before (so loading a file twice gives the same
\* sequence). Clearing leaves the pool empty, also when it was empty.
C29_LoadReplacesPool ==
    [][ /\ lastOp' = "load" =>
              \E recs \in Files :
                 /\ ret' = Len(recs)
                 /\ PoolRecs' = recs
                 /\ proxy_count' = Len(recs)
                 /\ current_proxy' = NULL
                 /\ Heap' = load_proxies(EmptyHeap, recs)
        /\ lastOp' = "clear" =>
              /\ Heap' = EmptyHeap
              /\ PoolSeq' = <<>>
      ]_vars

\* a file of two lines has been loaded: an https:// line with credentials,
\* then a line without a scheme
C29_Witness ==
    /\ lastOp = "load"
    /\ ret = 2
    /\ PoolSeq = <<1, 2>>
    /\ px[1].type = PROXY_HTTPS /\ px[1].validated = 0
    /\ px[2].type = PROXY_NONE
    /\ current_proxy = NULL
    /\ proxy_tail = 2

\* C30: a proxy that parse_proxy_line accepted, written by
\* save_validated_proxies and parsed again with the same default type, is
\* accepted again with the same host, port, username, password and type.
C30_SaveParseRoundTrip ==
    rt.pc = "reparsed" =>
        /\ rt.q.ok
        /\ rt.q.host = rt.p.host
        /\ rt.q.port = rt.p.port
        /\ rt.q.username = rt.p.username
        /\ rt.q.password = rt.p.password
        /\ rt.q.type = rt.p.type

(* ---------------------------------------------------------------------- *)
(* The saved file, long lines, credentials                                 *)
(* ---------------------------------------------------------------------- *)
\* s begins with pre
StartsWith(s, pre) ==
    Len(s) >= Len(pre) /\ SubSeq(s, 1, Len(pre)) = pre

\* s is the text pre followed by a text without "://"
SchemeThenPlain(s, pre) ==
    /\ StartsWith(s, pre)
    /\ strstr(Drop(s, Len(pre)), <<58, 47, 47>>) = 0

\* the type the line declared: its scheme, or the default type of the load
DeclaredType == parse_proxy_line(rt.line, rt.default_type).type

Blank(s) == s # <<>> /\ \A i \in 1 .. Len(s) : isspace(s[i])

\* C33: a record parse_proxy_line returns has a password only if it has a
\* username, whichever way the credentials were written, and neither
\* credential is a string of white space only (an empty string is never
\* stored: the field stays NULL).
C33_PasswordOnlyWithUsername ==
    rt.pc = "parsed" /\ rt.p.ok =>
        /\ rt.p.password # <<>> => rt.p.username # <<>>
        /\ ~Blank(rt.p.username)
        /\ ~Blank(rt.p.password)

(* ---------------------------------------------------------------------- *)
(* The pool between operations                                             *)
(* ---------------------------------------------------------------------- *)
\* C34: whenever no sweep is running, every proxy of the pool that is
\* validated has a detected type, and every proxy that is not validated is
\* inactive, has no detected type and a round-trip time of 0.
C34_ValidationFieldsCoherent ==
    mainpc = "idle" =>
        \A p \in Range(PoolSeq) :
            /\ px[p].validated = 1 => px[p].detected_type # PROXY_NONE
            /\ px[p].validated = 0 =>
                  /\ px[p].is_active = 0
                  /\ px[p].detected_type = PROXY_NONE
                  /\ px[p].last_rtt_ms = 0

\* a sweep has returned and left a validated proxy with its detected type
\* and a measured round-trip time in the pool
C34_Witness ==
    /\ mainpc = "idle"
    /\ lastOp = "sweep"
    /\ \E p \in Range(PoolSeq) :
          /\ px[p].validated = 1
          /\ px[p].detected_type # PROXY_NONE
          /\ px[p].last_rtt_ms > 0

\* C35: between operations the pool is well formed: proxy_count is the
\* number of entries reached from proxy_list, proxy_tail is the last of them
\* (NULL exactly when the list is empty), the parent of each entry is its
\* predecessor (NULL for the head), every entry is allocated, and
\* current_proxy is NULL or an entry of the list.
C35_PoolWellFormed ==
    mainpc = "idle" =>
        LET s == PoolSeq
            n == Len(s)
        IN /\ proxy_count = n
           /\ \A i, j \in 1 .. n : i # j => s[i] # s[j]
           /\ (proxy_list = NULL) <=> (n = 0)
           /\ (proxy_tail = NULL) <=> (n = 0)
           /\ n > 0 => /\ proxy_tail = s[n]
                       /\ px[s[n]].next = NULL
                       /\ px[s[1]].parent = NULL
           /\ \A i \in 2 .. n : px[s[i]].parent = s[i - 1]
           /\ \A i \in 1 .. n : px[s[i]].live
           /\ current_proxy # NULL => current_proxy \in Range(s)

\* a sweep has removed the head of a pool of two; the cursor is on the
\* entry that is left, which is head and tail
C35_Witness ==
    /\ mainpc = "idle"
    /\ lastOp = "sweep"
    /\ PoolSeq = <<2>>
    /\ ~px[1].live
    /\ current_proxy = 2
    /\ proxy_tail = 2
    /\ px[2].parent = NULL

\* the list s without p
Without(s, p) == SelectSeq(s, LAMBDA q : q # p)

\* the entry after p in the list s, NULL when p is the last
Successor(s, p) ==
    LET i == CHOOSE k \in 1 .. Len(s) : s[k] = p
    IN IF i < Len(s) THEN s[i + 1] ELSE NULL

\* where the cursor cur is to be after p has left the list s
CursorAfter(s, cur, p) ==
    IF cur # p THEN cur
    ELSE IF Successor(s, p) # NULL THEN Successor(s, p)
    ELSE IF Without(s, p) # <<>> THEN Head(Without(s, p))
    ELSE NULL

\* the proxies of the pool that did not validate
Failed == {p \in Range(PoolSeq) : px[p].validated = 0}

SweepStep == mainpc' = "join"

\* C37 (as stated): a step of a sweep (the reset, a worker's record of an
\* outcome) leaves the declared type and the credentials of every proxy as
\* they are.
C37_SweepKeepsDeclaredType ==
    [][ SweepStep =>
          \A p \in Ids :
              /\ px'[p].type = px[p].type
              /\ px'[p].cred = px[p].cred
      ]_vars

\* C37 (amended): a step of a sweep leaves the credentials and the links of
\* every proxy as they are; it changes the type of a proxy only when the
\* proxy was loaded with type NONE and validates, and then to the detected
\* type; so every proxy a sweep leaves in the pool has its detected type as
\* its type, and a later sweep attempts it with that type alone.
C37_SweepSetsTypeOnSuccess ==
    [][ /\ SweepStep =>
              \A p \in Ids :
                  /\ px'[p].cred = px[p].cred
                  /\ px'[p].live = px[p].live
                  /\ px'[p].next = px[p].next
                  /\ px'[p].parent = px[p].parent
                  /\ px'[p].type # px[p].type =>
                        /\ px[p].type = PROXY_NONE
                        /\ px'[p].validated = 1
                        /\ px'[p].type = px'[p].detected_type
                  /\ (px[p].validated = 0 /\ px'[p].validated = 1) =>
                        px'[p].type = px'[p].detected_type
        /\ lastOp' = "sweep" =>
              \A p \in Range(PoolSeq') :
                  AttemptOrder(px'[p].type) = <<px'[p].detected_type>>
      ]_vars

\* a sweep has returned and left in the pool a proxy that was loaded with
\* type NONE (no line declares SOCKS4) and validated as SOCKS4: its type is
\* SOCKS4
C37_Witness ==
    /\ lastOp = "sweep"
    /\ \E p \in Range(PoolSeq) :
          /\ px[p].type = PROXY_SOCKS4
          /\ px[p].detected_type = PROXY_SOCKS4
          /\ px[p].validated = 1
          /\ ~px[p].cred

(* ---------------------------------------------------------------------- *)
(* Authentication not offered, proxies not tested, files not opened        *)
(* ---------------------------------------------------------------------- *)
\* C38: socks5_connect runs the user name and password sub-negotiation only
\* if its greeting offered method 2. After a greeting that offered method 0
\* alone (5, 1, 0) it never reads the lengths of the credentials and never
\* writes or awaits the authentication message, whatever method the proxy
\* selects.
C38_AuthOnlyIfOffered ==
    (hs.fn = "socks5" /\ Len(peer.got) >= 3 /\ peer.got[2] = 1) =>
        hs.pc \notin {"strlen_null", "fault", "auth_w", "auth_r"}

\* C39: the proxies a sweep removes when it returns are proxies that a
\* worker claimed and whose outcome a worker recorded as a failure; a proxy
\* that no worker tested stays in the pool.
C39_RemovedOnlyIfTested ==
    [][ (mainpc = "join" /\ mainpc' = "idle") =>
          \A i \in 1 .. ctx.total :
              ctx.items[i] \notin Range(PoolSeq') =>
                  /\ claimed[i] >= 1
                  /\ wrote[ctx.items[i]] >= 1
      ]_vars

\* C40: load_proxies on a file that cannot be opened returns -1 and leaves
\* the pool as it was: its entries and their order, the count, the cursor,
\* the remembered file and the remembered default type.
C40_UnopenedLoadKeepsPool ==
    [][ lastOp' = "load_unopened" =>
          /\ ret' = -1
          /\ PoolSeq' = PoolSeq
          /\ px' = px
          /\ proxy_list' = proxy_list
          /\ proxy_tail' = proxy_tail
          /\ proxy_count' = proxy_count
          /\ current_proxy' = current_proxy
          /\ xconnect'.proxy_file = xconnect.proxy_file
          /\ xconnect'.proxy_default_type = xconnect.proxy_default_type
      ]_vars

\* a load that could not open its file has returned; the pool holds the two
\* proxies of the earlier load from proxies.txt with default type HTTPS,
\* the cursor is on the second
C40_Witness ==
    /\ lastOp = "load_unopened"
    /\ ret = -1
    /\ PoolSeq = <<1, 2>>
    /\ proxy_count = 2
    /\ current_proxy = 2
    /\ xconnect.proxy_file = "proxies.txt"
    /\ xconnect.proxy_default_type = PROXY_HTTPS

====
